---- MODULE Spec2Model ----
(***************************************************************************)
(* Marantz SR6009 web remote: the protocol adaptation layer.               *)
(*                                                                         *)
(*   - the line decoder and the OSD state machine                          *)
(*       src/marantz_remote/response_parser.py                             *)
(*       src/marantz_remote/event_handler.py                               *)
(*   - the telnet client (connection manager)                              *)
(*       src/marantz_remote/telnet_client.py, with its callers in          *)
(*       src/app.py                                                        *)
(*                                                                         *)
(* Text is a sequence of characters; a character is a one-letter string,   *)
(* or the name of a control character or of a non-ASCII byte/code point.   *)
(***************************************************************************)
EXTENDS Integers, Sequences, FiniteSets, TLC

(***************************************************************************)
(* Characters and the string functions of Python the code uses.            *)
(***************************************************************************)

\* The characters matched by the class [\x00-\x1F\x7F] of _clean_osd_text.
ControlChars == {"NUL", "SOH", "STX", "EOT", "ENQ", "ACK", "TAB", "LF", "CR", "SO", "DEL"}

\* The characters str.strip() removes (and \s of the re module matches).
Whitespace == {" ", "TAB", "LF", "CR"}

Digits == <<"0", "1", "2", "3", "4", "5", "6", "7", "8", "9">>

IsDigit(c) == \E i \in 1..10 : Digits[i] = c

\* int() of one digit character.
DigitVal(c) == (CHOOSE i \in 1..10 : Digits[i] = c) - 1

UpperCase == <<"A", "B", "C", "D", "E", "F", "G", "H", "I", "J", "K", "L", "M",
               "N", "O", "P", "Q", "R", "S", "T", "U", "V", "W", "X", "Y", "Z">>

LowerCase == <<"a", "b", "c", "d", "e", "f", "g", "h", "i", "j", "k", "l", "m",
               "n", "o", "p", "q", "r", "s", "t", "u", "v", "w", "x", "y", "z">>

\* str.lower() on one character.
LowerChar(c) ==
    IF \E i \in 1..26 : UpperCase[i] = c
    THEN LowerCase[CHOOSE i \in 1..26 : UpperCase[i] = c]
    ELSE c

\* str.lower()
Lower(s) == [i \in 1..Len(s) |-> LowerChar(s[i])]

\* s.startswith(p)
StartsWith(s, p) == Len(s) >= Len(p) /\ SubSeq(s, 1, Len(p)) = p

\* s[n:]
Drop(s, n) == SubSeq(s, n + 1, Len(s))

RECURSIVE LStripSet(_, _)
\* s.lstrip(chars)
LStripSet(s, chars) ==
    IF s # <<>> /\ s[1] \in chars THEN LStripSet(Tail(s), chars) ELSE s

RECURSIVE RStripSet(_, _)
\* s.rstrip(chars)
RStripSet(s, chars) ==
    IF s # <<>> /\ s[Len(s)] \in chars
    THEN RStripSet(SubSeq(s, 1, Len(s) - 1), chars)
    ELSE s

\* s.strip()
Strip(s) == RStripSet(LStripSet(s, Whitespace), Whitespace)

RECURSIVE DigitsToInt(_)
\* int(s) for a string of digits.
DigitsToInt(s) ==
    IF s = <<>> THEN 0
    ELSE 10 * DigitsToInt(SubSeq(s, 1, Len(s) - 1)) + DigitVal(s[Len(s)])

AllDigits(s) == \A i \in 1..Len(s) : IsDigit(s[i])

(***************************************************************************)
(* OsdParser: the constants of the class.                                  *)
(***************************************************************************)

NOW_PLAYING_CHAR == "SOH"
CONTEXT_MENU_CHAR == "STX"
SELECTED_ITEM_CHAR == "EOT"
MENU_ITEM_CHAR == "ENQ"
PLAYING_ITEM_CHAR == "$"
SPECIAL_MENU_ITEM_CHARS == {"ACK", "LF", "SO"}

MODE_NOW_PLAYING == "now_playing"
MODE_MENU == "menu"
MODE_CONTEXT_MENU == "context_menu"

\* Python's None where the other values are strings (a screen mode, an
\* event name).
None == "None"

\* An Optional[int] or Optional[str] of the code: Nothing is None, Just(v)
\* is the value v.
Nothing == {}

Just(v) == {v}

TheValue(o) == CHOOSE v \in o : TRUE

\* OsdParser(): context_timeout_seconds defaults to 5.
context_timeout == 5

\* A variant of clean_osd_text that trims the text and keeps its control
\* characters.
clean_keeping_controls(text) == Strip(text)

\* A variant of clean_osd_text that removes the control characters the text
\* begins with only.
clean_leading_controls(text) == Strip(LStripSet(text, ControlChars))

\* re.sub(r'[\x00-\x1F\x7F]', '', text).strip()
clean_osd_text(text) == Strip(SelectSeq(text, LAMBDA c : c \notin ControlChars))

create_default_context ==
    [screen_mode |-> None,
     last_update_time |-> 0,
     screen_title |-> <<>>,
     cursor_line |-> -1,
     menu_items |-> {}]

\* The events, as (event_name, payload) pairs; NoEvent is a returned None.
NoEvent == [name |-> None]

TextEvent(name, text) == [name |-> name, text |-> text]

ItemEvent(name, line, text, selected) ==
    [name |-> name, line |-> line, text |-> text, is_selected |-> selected]

ProgressEvent(time, percent) ==
    [name |-> "play_progress_update", time |-> time, percent |-> percent]

\* What a method of the parser leaves behind: the event it returns, the
\* context and the pending slot.
Outcome(ev, ctx, pend) == [ev |-> ev, ctx |-> ctx, pend |-> pend]

reset_context_if_timed_out(ctx, now) ==
    [(IF now - ctx.last_update_time > context_timeout
      THEN [ctx EXCEPT !.screen_mode = None]
      ELSE ctx) EXCEPT !.last_update_time = now]

\* A variant of TitleMode that compares 'now playing' with the case kept.
TitleModeCaseSensitive(text) ==
    IF text = <<"n", "o", "w", " ", "p", "l", "a", "y", "i", "n", "g">>
    THEN MODE_NOW_PLAYING
    ELSE IF text = <<"M", "e", "n", "u">>
         THEN MODE_CONTEXT_MENU
         ELSE MODE_MENU

TitleMode(text) ==
    IF Lower(text) = <<"n", "o", "w", " ", "p", "l", "a", "y", "i", "n", "g">>
    THEN MODE_NOW_PLAYING
    ELSE IF text = <<"M", "e", "n", "u">>
         THEN MODE_CONTEXT_MENU
         ELSE MODE_MENU

handle_title_line(text, ctx, pend, now) ==
    LET changed == text # ctx.screen_title
        c1 == IF changed
              THEN [create_default_context EXCEPT !.screen_title = text]
              ELSE ctx
        p1 == IF changed THEN Nothing ELSE pend
        c2 == [c1 EXCEPT !.last_update_time = now, !.screen_mode = TitleMode(text)]
    IN  Outcome(TextEvent("osd_title_update", text), c2, p1)

(***************************************************************************)
(* Line 5 of the now-playing screen: the two regular expressions.          *)
(***************************************************************************)

\* The text \d{1,2}:\d{2}(?::\d{2})? matches at position i of s, or <<>>.
TimeMatchAt(s, i) ==
    LET dig(k) == k <= Len(s) /\ IsDigit(s[k])
        col(k) == k <= Len(s) /\ s[k] = ":"
        \* the end of the match when the first group holds n digits, or 0
        tailEnd(n) ==
            IF col(i + n) /\ dig(i + n + 1) /\ dig(i + n + 2)
            THEN IF col(i + n + 3) /\ dig(i + n + 4) /\ dig(i + n + 5)
                 THEN i + n + 5
                 ELSE i + n + 2
            ELSE 0
        e == IF dig(i) /\ dig(i + 1) /\ tailEnd(2) # 0 THEN tailEnd(2)
             ELSE IF dig(i) THEN tailEnd(1)
             ELSE 0
    IN  IF e = 0 THEN <<>> ELSE SubSeq(s, i, e)

\* re.search(r'(\d{1,2}:\d{2}(?::\d{2})?)', text): group 1, or None.
TimeSearch(s) ==
    IF \E i \in 1..Len(s) : TimeMatchAt(s, i) # <<>>
    THEN LET i == CHOOSE j \in 1..Len(s) :
                      /\ TimeMatchAt(s, j) # <<>>
                      /\ \A k \in 1..(j - 1) : TimeMatchAt(s, k) = <<>>
         IN  Just(TimeMatchAt(s, i))
    ELSE Nothing

\* The digits (\d{1,3})% matches at position i of s, or <<>>.
PercentMatchAt(s, i) ==
    LET dig(k) == k <= Len(s) /\ IsDigit(s[k])
        pct(k) == k <= Len(s) /\ s[k] = "%"
        n == IF dig(i) /\ dig(i + 1) /\ dig(i + 2) /\ pct(i + 3) THEN 3
             ELSE IF dig(i) /\ dig(i + 1) /\ pct(i + 2) THEN 2
             ELSE IF dig(i) /\ pct(i + 1) THEN 1
             ELSE 0
    IN  IF n = 0 THEN <<>> ELSE SubSeq(s, i, i + n - 1)

\* re.search(r'(\d{1,3})%', text): int(group 1), or None.
PercentSearch(s) ==
    IF \E i \in 1..Len(s) : PercentMatchAt(s, i) # <<>>
    THEN LET i == CHOOSE j \in 1..Len(s) :
                      /\ PercentMatchAt(s, j) # <<>>
                      /\ \A k \in 1..(j - 1) : PercentMatchAt(s, k) = <<>>
         IN  Just(DigitsToInt(PercentMatchAt(s, i)))
    ELSE Nothing

\* A variant of handle_now_playing_line that takes the album from a line
\* with the signifier only.
handle_now_playing_line_signified_album(line, raw_text) ==
    LET signified == StartsWith(raw_text, <<NOW_PLAYING_CHAR>>)
        text1 == clean_osd_text(Drop(raw_text, 1))
        text4 == clean_osd_text(IF signified THEN Drop(raw_text, 1) ELSE raw_text)
        text5 == clean_osd_text(raw_text)
        time_val == TimeSearch(text5)
        percent_val == PercentSearch(text5)
    IN  IF line = 1 /\ signified
        THEN TextEvent("now_playing_title_update", text1)
        ELSE IF line = 2 /\ signified
        THEN TextEvent("now_playing_artist_update", text1)
        ELSE IF line = 3 /\ signified /\ text1 # <<>>
        THEN TextEvent("now_playing_samplerate_update", text1)
        ELSE IF line = 4 /\ signified /\ text4 # <<>>
        THEN TextEvent("now_playing_album_update", text4)
        ELSE IF line = 5 /\ (time_val # Nothing \/ percent_val # Nothing)
        THEN ProgressEvent(time_val, percent_val)
        ELSE NoEvent

handle_now_playing_line(line, raw_text) ==
    LET signified == StartsWith(raw_text, <<NOW_PLAYING_CHAR>>)
        text1 == clean_osd_text(Drop(raw_text, 1))
        text4 == clean_osd_text(IF signified THEN Drop(raw_text, 1) ELSE raw_text)
        text5 == clean_osd_text(raw_text)
        time_val == TimeSearch(text5)
        percent_val == PercentSearch(text5)
    IN  IF line = 1 /\ signified
        THEN TextEvent("now_playing_title_update", text1)
        ELSE IF line = 2 /\ signified
        THEN TextEvent("now_playing_artist_update", text1)
        ELSE IF line = 3 /\ signified /\ text1 # <<>>
        THEN TextEvent("now_playing_samplerate_update", text1)
        ELSE IF line = 4 /\ text4 # <<>>
        THEN TextEvent("now_playing_album_update", text4)
        ELSE IF line = 5 /\ (time_val # Nothing \/ percent_val # Nothing)
        THEN ProgressEvent(time_val, percent_val)
        ELSE NoEvent

\* A variant of handle_menu_line that emits an item for every line, with
\* or without a signifier.
handle_menu_line_every_line(line, raw_text, ctx) ==
    LET is_selected == StartsWith(raw_text, <<SELECTED_ITEM_CHAR>>)
        text == clean_osd_text(Drop(raw_text, 1))
        c1 == IF is_selected THEN [ctx EXCEPT !.cursor_line = line] ELSE ctx
    IN  [ev |-> ItemEvent("osd_menu_item_update", line, text, is_selected),
         ctx |-> c1]

\* A variant of handle_menu_line that takes the menu-item byte for the
\* selected item too.
handle_menu_line_item_selected(line, raw_text, ctx) ==
    LET is_selected == \/ StartsWith(raw_text, <<SELECTED_ITEM_CHAR>>)
                       \/ StartsWith(raw_text, <<MENU_ITEM_CHAR>>)
        is_menu_item == \/ StartsWith(raw_text, <<CONTEXT_MENU_CHAR>>)
                        \/ (raw_text # <<>> /\ raw_text[1] \in SPECIAL_MENU_ITEM_CHARS)
        text == clean_osd_text(Drop(raw_text, 1))
        c1 == IF is_selected THEN [ctx EXCEPT !.cursor_line = line] ELSE ctx
    IN  [ev |-> IF is_menu_item \/ is_selected
                THEN ItemEvent("osd_menu_item_update", line, text, is_selected)
                ELSE NoEvent,
         ctx |-> c1]

\* Returns the event and the context (the cursor line may move).
handle_menu_line(line, raw_text, ctx) ==
    LET is_selected == StartsWith(raw_text, <<SELECTED_ITEM_CHAR>>)
        is_menu_item == \/ StartsWith(raw_text, <<MENU_ITEM_CHAR>>)
                        \/ StartsWith(raw_text, <<CONTEXT_MENU_CHAR>>)
                        \/ (raw_text # <<>> /\ raw_text[1] \in SPECIAL_MENU_ITEM_CHARS)
        text == clean_osd_text(Drop(raw_text, 1))
        c1 == IF is_selected THEN [ctx EXCEPT !.cursor_line = line] ELSE ctx
    IN  [ev |-> IF is_menu_item \/ is_selected
                THEN ItemEvent("osd_menu_item_update", line, text, is_selected)
                ELSE NoEvent,
         ctx |-> c1]

\* A variant of handle_context_menu_line in which the signifier marks the
\* selected item.
handle_context_menu_line_plain(line, raw_text) ==
    LET is_selected == StartsWith(raw_text, <<CONTEXT_MENU_CHAR>>)
        text == clean_osd_text(raw_text)
    IN  IF line \in 1..7 /\ text # <<>>
        THEN ItemEvent("osd_context_menu_item_update", line, text, is_selected)
        ELSE NoEvent

handle_context_menu_line(line, raw_text) ==
    LET is_selected == ~StartsWith(raw_text, <<CONTEXT_MENU_CHAR>>)
        text == clean_osd_text(raw_text)
    IN  IF line \in 1..7 /\ text # <<>>
        THEN ItemEvent("osd_context_menu_item_update", line, text, is_selected)
        ELSE NoEvent

\* re.match(r'^NSE(\d)(.*)$', response, re.DOTALL)
NseMatch(response) ==
    /\ Len(response) >= 4
    /\ StartsWith(response, <<"N", "S", "E">>)
    /\ IsDigit(response[4])

\* A variant of InferMode that takes the selected-item byte for a context
\* menu item.
InferModeSelectedIsContext(raw_text) ==
    IF StartsWith(raw_text, <<NOW_PLAYING_CHAR>>)
    THEN MODE_NOW_PLAYING
    ELSE IF StartsWith(raw_text, <<MENU_ITEM_CHAR>>)
    THEN MODE_MENU
    ELSE IF \/ StartsWith(raw_text, <<CONTEXT_MENU_CHAR>>)
            \/ StartsWith(raw_text, <<SELECTED_ITEM_CHAR>>)
            \/ StartsWith(raw_text, <<"LF">>)
    THEN MODE_CONTEXT_MENU
    ELSE None

\* The mode the first content line gives a screen whose mode is not known.
InferMode(raw_text) ==
    IF StartsWith(raw_text, <<NOW_PLAYING_CHAR>>)
    THEN MODE_NOW_PLAYING
    ELSE IF \/ StartsWith(raw_text, <<MENU_ITEM_CHAR>>)
            \/ StartsWith(raw_text, <<SELECTED_ITEM_CHAR>>)
    THEN MODE_MENU
    ELSE IF \/ StartsWith(raw_text, <<CONTEXT_MENU_CHAR>>)
            \/ StartsWith(raw_text, <<"LF">>)
    THEN MODE_CONTEXT_MENU
    ELSE None

\* A variant of ParseNse in which the pagination line takes part in the
\* screen: it infers the mode, and clears the cursor and the pending slot.
ParseNsePaginationSetsMode(response, ctx, pend, now) ==
    LET line == DigitVal(response[4])
        raw_text == Drop(response, 4)
        c1 == reset_context_if_timed_out(ctx, now)
        text8 == clean_osd_text(LStripSet(raw_text, {PLAYING_ITEM_CHAR}))
        c2 == IF c1.screen_mode = None
              THEN [c1 EXCEPT !.screen_mode = InferMode(raw_text)]
              ELSE c1
        menu == handle_menu_line(line, raw_text, c2)
    IN  IF line = 0
        THEN handle_title_line(clean_osd_text(raw_text), c1, pend, now)
        ELSE IF line = 8
        THEN Outcome(IF text8 # <<>> THEN TextEvent("station_info_update", text8)
                     ELSE NoEvent, [c2 EXCEPT !.cursor_line = -1], Nothing)
        ELSE IF /\ c1.screen_mode \in {MODE_MENU, MODE_CONTEXT_MENU}
                /\ Strip(raw_text) = <<>>
        THEN Outcome(NoEvent, c1, Just(line))
        ELSE IF c2.screen_mode = MODE_NOW_PLAYING
        THEN Outcome(handle_now_playing_line(line, raw_text), c2, pend)
        ELSE IF c2.screen_mode = MODE_MENU
        THEN Outcome(menu.ev, menu.ctx, pend)
        ELSE IF c2.screen_mode = MODE_CONTEXT_MENU
        THEN Outcome(handle_context_menu_line(line, raw_text), c2, pend)
        ELSE Outcome(NoEvent, c2, pend)

\* OsdParser.parse, from "self._reset_context_if_timed_out()" on: the line
\* matched NSE<digit>.
ParseNse(response, ctx, pend, now) ==
    LET line == DigitVal(response[4])
        raw_text == Drop(response, 4)
        c1 == reset_context_if_timed_out(ctx, now)
        text8 == clean_osd_text(LStripSet(raw_text, {PLAYING_ITEM_CHAR}))
        c2 == IF c1.screen_mode = None
              THEN [c1 EXCEPT !.screen_mode = InferMode(raw_text)]
              ELSE c1
        menu == handle_menu_line(line, raw_text, c2)
    IN  IF line = 0
        THEN handle_title_line(clean_osd_text(raw_text), c1, pend, now)
        ELSE IF line = 8
        THEN Outcome(IF text8 # <<>> THEN TextEvent("station_info_update", text8)
                     ELSE NoEvent, c1, pend)
        ELSE IF /\ c1.screen_mode \in {MODE_MENU, MODE_CONTEXT_MENU}
                /\ Strip(raw_text) = <<>>
        THEN Outcome(NoEvent, c1, Just(line))
        ELSE IF c2.screen_mode = MODE_NOW_PLAYING
        THEN Outcome(handle_now_playing_line(line, raw_text), c2, pend)
        ELSE IF c2.screen_mode = MODE_MENU
        THEN Outcome(menu.ev, menu.ctx, pend)
        ELSE IF c2.screen_mode = MODE_CONTEXT_MENU
        THEN Outcome(handle_context_menu_line(line, raw_text), c2, pend)
        ELSE Outcome(NoEvent, c2, pend)

\* A variant of TakesFragment in which a pending slot takes every line.
TakesAnyLine(response, pend) == pend # Nothing

\* The test that opens OsdParser.parse: a pending slot takes the line.
TakesFragment(response, pend) ==
    pend # Nothing /\ ~StartsWith(response, <<"N", "S", "E">>)

\* OsdParser.parse
OsdParse(response, ctx, pend, now) ==
    IF TakesFragment(response, pend)
    THEN Outcome(ItemEvent(IF ctx.screen_mode = MODE_CONTEXT_MENU
                           THEN "osd_context_menu_item_update"
                           ELSE "osd_menu_item_update",
                           TheValue(pend), clean_osd_text(response), TRUE),
                 ctx, Nothing)
    ELSE IF ~NseMatch(response)
    THEN Outcome(NoEvent, ctx, pend)
    ELSE ParseNse(response, ctx, pend, now)

(***************************************************************************)
(* The sub-parsers of the dispatch table.  A float of the code is held in  *)
(* tenths (73.5 is 735); a parser that returns a payload dict returns      *)
(* Just(payload) or Nothing, one that returns the (event_name, payload)    *)
(* pair returns the event or NoEvent.                                      *)
(***************************************************************************)

\* A variant of parse_value_with_half_step that takes every string for a
\* whole number.
parse_value_whole(raw_val_str) == 10 * DigitsToInt(raw_val_str)

\* _parse_value_with_half_step, in tenths.
parse_value_with_half_step(raw_val_str) ==
    IF Len(raw_val_str) = 3
    THEN DigitsToInt(raw_val_str)
    ELSE 10 * DigitsToInt(raw_val_str)

\* The text a pattern's \s? leaves to the rest of the pattern.
OptSpace(s) == IF s # <<>> /\ s[1] \in Whitespace THEN Tail(s) ELSE s

\* group 1 of ^<prefix>\s?(\d+)$, or Nothing.
PrefixDigits(response, prefix) ==
    LET d == OptSpace(Drop(response, Len(prefix)))
    IN  IF StartsWith(response, prefix) /\ d # <<>> /\ AllDigits(d)
        THEN Just(d)
        ELSE Nothing

\* group 1 of ^<prefix>\s(\d+)$, or Nothing.
PrefixSpaceDigits(response, prefix) ==
    LET s == Drop(response, Len(prefix))
    IN  IF /\ StartsWith(response, prefix)
           /\ s # <<>> /\ s[1] \in Whitespace
           /\ Tail(s) # <<>> /\ AllDigits(Tail(s))
        THEN Just(Tail(s))
        ELSE Nothing

StateData(state) == [state |-> state]

\* _create_on_off_parser(prefix, on_val, off_val)
on_off_parser(response, prefix, on_val, off_val) ==
    LET state_part == Drop(response, Len(prefix))
    IN  IF ~StartsWith(response, prefix) THEN Nothing
        ELSE IF state_part = on_val THEN Just(StateData(<<"o", "n">>))
        ELSE IF state_part = off_val
        THEN Just(StateData(IF off_val = <<"S", "T", "A", "N", "D", "B", "Y">> THEN <<"s", "t", "a", "n", "d", "b", "y">> ELSE <<"o", "f", "f">>))
        ELSE Nothing

\* _create_multi_state_parser for a pattern ^<prefix><sep>(<alternatives>)$,
\* where sep is "opt" for \s?, "req" for \s and "none" for nothing:
\* the state is group 1 in lower case, normalised through the map (a set
\* of <<from, to>> pairs).
multi_state_parser(response, prefix, sep, alternatives, normalization_map) ==
    LET s == Drop(response, Len(prefix))
        g == IF sep = "opt" THEN OptSpace(s)
             ELSE IF sep = "req" THEN Tail(s)
             ELSE s
        ok == /\ StartsWith(response, prefix)
              /\ (sep = "req" => (s # <<>> /\ s[1] \in Whitespace))
              /\ g \in alternatives
        state == Lower(g)
    IN  IF ~ok THEN Nothing
        ELSE IF \E p \in normalization_map : p[1] = state
        THEN Just(StateData((CHOOSE p \in normalization_map : p[1] = state)[2]))
        ELSE Just(StateData(state))

\* _create_multi_state_parser for a pattern ^<prefix><sep>(.*)$
rest_state_parser(response, prefix, sep) ==
    LET s == Drop(response, Len(prefix))
        ok == /\ StartsWith(response, prefix)
              /\ (sep = "req" => (s # <<>> /\ s[1] \in Whitespace))
              /\ "LF" \notin {s[i] : i \in 1..Len(s)}
    IN  IF ok
        THEN Just(StateData(Lower(IF sep = "req" THEN Tail(s) ELSE s)))
        ELSE Nothing

\* The first alternative of the group that the text starts with, or <<>>.
RECURSIVE FirstAlternative(_, _)
FirstAlternative(s, alternatives) ==
    IF alternatives = <<>> THEN <<>>
    ELSE IF StartsWith(s, Head(alternatives)) THEN Head(alternatives)
    ELSE FirstAlternative(s, Tail(alternatives))

\* _create_multi_state_parser(r'^NSPAN(USN|PAS|OK|NG|LOGIN|LOGOUT)\s?(.*)$')
parse_nspan(response) ==
    LET g == FirstAlternative(Drop(response, 5),
                 <<<<"U", "S", "N">>, <<"P", "A", "S">>, <<"O", "K">>, <<"N", "G">>, <<"L", "O", "G", "I", "N">>, <<"L", "O", "G", "O", "U", "T">>>>)
    IN  IF StartsWith(response, <<"N", "S", "P", "A", "N">>) /\ g # <<>>
           /\ "LF" \notin {response[i] : i \in 1..Len(response)}
        THEN Just(StateData(Lower(g)))
        ELSE Nothing

\* A variant of parse_volume that takes the digits a line starting with MV
\* ends with for the volume.
parse_volume_any_digits(response) ==
    LET d == Drop(response, IF StartsWith(response, <<"M", "V", "M", "A", "X">>) THEN 5 ELSE 2)
    IN  IF StartsWith(response, <<"M", "V">>) /\ d # <<>> /\ AllDigits(d)
        THEN [name |-> "volume_update", value |-> parse_value_with_half_step(d)]
        ELSE NoEvent

parse_volume(response) ==
    LET max_match == PrefixDigits(response, <<"M", "V", "M", "A", "X">>)
        vol_match == IF StartsWith(response, <<"M", "V">>) /\ Len(response) > 2
                        /\ AllDigits(Drop(response, 2))
                     THEN Just(Drop(response, 2))
                     ELSE Nothing
    IN  IF max_match # Nothing
        THEN [name |-> "max_volume_update",
              value |-> parse_value_with_half_step(TheValue(max_match))]
        ELSE IF vol_match # Nothing
        THEN [name |-> "volume_update",
              value |-> parse_value_with_half_step(TheValue(vol_match))]
        ELSE NoEvent

parse_dialog_level(response) ==
    LET match == PrefixDigits(response, <<"P", "S", "D", "I", "L">>)
    IN  IF response \in {<<"P", "S", "D", "I", "L", " ", "O", "F", "F">>, <<"P", "S", "D", "I", "L", "O", "F", "F">>} THEN Just(StateData(<<"o", "f", "f">>))
        ELSE IF response \in {<<"P", "S", "D", "I", "L", " ", "O", "N">>, <<"P", "S", "D", "I", "L", "O", "N">>} THEN Just(StateData(<<"o", "n">>))
        ELSE IF match # Nothing
        THEN Just([value |-> parse_value_with_half_step(TheValue(match))])
        ELSE Nothing

parse_picture_mode(response) ==
    LET mode_map == {<<<<"P", "V", "O", "F", "F">>, <<"o", "f", "f">>>>, <<<<"P", "V", "S", "T", "D">>, <<"s", "t", "a", "n", "d", "a", "r", "d">>>>,
                     <<<<"P", "V", "M", "O", "V">>, <<"m", "o", "v", "i", "e">>>>, <<<<"P", "V", "V", "V", "D">>, <<"v", "i", "v", "i", "d">>>>,
                     <<<<"P", "V", "S", "T", "M">>, <<"s", "t", "r", "e", "a", "m">>>>, <<<<"P", "V", "C", "T", "M">>, <<"c", "u", "s", "t", "o", "m">>>>,
                     <<<<"P", "V", "D", "A", "Y">>, <<"i", "s", "f", "_", "d", "a", "y">>>>, <<<<"P", "V", "N", "G", "T">>, <<"i", "s", "f", "_", "n", "i", "g", "h", "t">>>>}
    IN  IF \E p \in mode_map : p[1] = response
        THEN Just(StateData((CHOOSE p \in mode_map : p[1] = response)[2]))
        ELSE Nothing

\* ^PSCEG\s?(\d{2})$: int(group 1) / 10.0, in tenths.
parse_center_gain(response) ==
    LET match == PrefixDigits(response, <<"P", "S", "C", "E", "G">>)
    IN  IF match # Nothing /\ Len(TheValue(match)) = 2
        THEN Just([value |-> DigitsToInt(TheValue(match))])
        ELSE Nothing

\* _create_numeric_parser(prefix)
numeric_parser(response, prefix) ==
    LET match == PrefixDigits(response, prefix)
    IN  IF match # Nothing
        THEN Just([level |-> DigitsToInt(TheValue(match))])
        ELSE Nothing

\* ^(SYREMOTE|SYPANEL(?:\+V)?) LOCK (ON|OFF)$
parse_system_lock(response) ==
    LET locks == <<<<"S", "Y", "P", "A", "N", "E", "L", "+", "V">>, <<"S", "Y", "R", "E", "M", "O", "T", "E">>, <<"S", "Y", "P", "A", "N", "E", "L">>>>
        lock_type == FirstAlternative(response, locks)
        tail == Drop(response, Len(lock_type))
        on == tail = <<" ", "L", "O", "C", "K", " ", "O", "N">>
        off == tail = <<" ", "L", "O", "C", "K", " ", "O", "F", "F">>
    IN  IF lock_type # <<>> /\ (on \/ off)
        THEN [name |-> IF lock_type = <<"S", "Y", "R", "E", "M", "O", "T", "E">> THEN "remote_lock_update"
                       ELSE "panel_lock_update",
              state |-> IF on THEN <<"o", "n">> ELSE <<"o", "f", "f">>]
        ELSE NoEvent

parse_sound_mode(response) ==
    IF StartsWith(response, <<"M", "S">>)
    THEN Just([mode |-> Drop(response, 2)])
    ELSE Nothing

parse_smart_select(response) ==
    IF StartsWith(response, <<"M", "S", "S", "M", "A", "R", "T">>)
    THEN Just([selection |-> response])
    ELSE Nothing

\* s.split(' ', 1)[1], for a text that holds a space.
AfterFirstSpace(s) ==
    Drop(s, CHOOSE i \in 1..Len(s) : s[i] = " " /\ \A j \in 1..(i - 1) : s[j] # " ")

parse_play_state(response) ==
    IF StartsWith(response, <<"N", "S", "F", " ">>) \/ StartsWith(response, <<"C", "R", "P", "L", "Y", "S", "T", "S", " ">>)
    THEN Just(StateData(AfterFirstSpace(response)))
    ELSE Nothing

parse_sleep_timer(response) ==
    LET d == Drop(response, 3)
        isnum == StartsWith(response, <<"S", "L", "P">>) /\ d # <<>> /\ AllDigits(d)
    IN  IF response = <<"S", "L", "P", "O", "F", "F">> THEN Just(StateData(<<"o", "f", "f">>))
        ELSE IF isnum /\ DigitsToInt(d) = 0 THEN Just(StateData(<<"o", "f", "f">>))
        ELSE IF isnum THEN Just([state |-> <<"o", "n">>, minutes |-> DigitsToInt(d)])
        ELSE Nothing

RECURSIVE IntToStr(_)
\* str(n) for n >= 0
IntToStr(n) ==
    IF n < 10 THEN <<Digits[n + 1]>>
    ELSE IntToStr(n \div 10) \o <<Digits[(n % 10) + 1]>>

\* f'{n / 100.0:.2f}'
Hundredths(n) ==
    IntToStr(n \div 100) \o <<".", Digits[((n % 100) \div 10) + 1], Digits[(n % 10) + 1]>>

\* What a sub-parser gives when int() raises ValueError: nothing catches
\* it before the read loop.
ValueError == [name |-> "ValueError"]

\* str.isdigit(): true of the ASCII digits and of U+00B2 as well.
isdigit(s) == s # <<>> /\ \A i \in 1..Len(s) : IsDigit(s[i]) \/ s[i] = "U+00B2"

\* _parse_tuner_status; int() raises ValueError for a text isdigit() is
\* true of that holds a character other than a decimal digit.
parse_tuner_status(response) ==
    LET rest == Drop(response, 4)
        stripped == Strip(rest)
    IN  IF StartsWith(response, <<"T", "M", "A", "N">>)
        THEN [name |-> "tuner_mode_update", mode |-> rest]
        ELSE IF StartsWith(response, <<"T", "F", "A", "N">>)
        THEN IF ~isdigit(stripped)
             THEN [name |-> "tuner_name_update", tuner_name |-> stripped]
             ELSE IF ~AllDigits(stripped)
             THEN ValueError
             ELSE IF Len(rest) >= 4
             THEN [name |-> "tuner_frequency_update",
                   frequency |-> Hundredths(DigitsToInt(stripped))]
             ELSE [name |-> "tuner_frequency_update",
                   frequency |-> IntToStr(DigitsToInt(stripped))]
        ELSE IF StartsWith(response, <<"T", "P", "A", "N">>)
        THEN [name |-> "tuner_preset_update", preset |-> rest]
        ELSE NoEvent

parse_video_select(response) ==
    LET source == Drop(response, 2)
    IN  IF response = <<"S", "V", "O", "N">>
        THEN [name |-> "video_select_mode_update", state |-> <<"o", "n">>]
        ELSE IF response = <<"S", "V", "O", "F", "F">>
        THEN [name |-> "video_select_mode_update", state |-> <<"o", "f", "f">>]
        ELSE IF StartsWith(response, <<"S", "V">>) /\ source # <<>> /\ source # <<"?">>
        THEN [name |-> "video_select_source_update", source |-> source]
        ELSE NoEvent

\* ^TR([12])\s(ON|OFF)$
parse_trigger(response) ==
    LET ok == /\ Len(response) >= 5
              /\ StartsWith(response, <<"T", "R">>)
              /\ response[3] \in {"1", "2"}
              /\ response[4] \in Whitespace
              /\ Drop(response, 4) \in {<<"O", "N">>, <<"O", "F", "F">>}
    IN  IF ok
        THEN [name |-> IF response[3] = "1" THEN "trigger_1_update"
                       ELSE "trigger_2_update",
              state |-> Lower(Drop(response, 4))]
        ELSE NoEvent

\* [A-Z/]
IsSourceChar(c) == c = "/" \/ \E i \in 1..26 : UpperCase[i] = c

parse_zone2(response) ==
    LET rest == Drop(response, 2)
        z2 == StartsWith(response, <<"Z", "2">>) /\ rest # <<>>
    IN  IF response \in {<<"Z", "2", "O", "N">>, <<"Z", "2", "O", "F", "F">>}
        THEN [name |-> "zone2_power_update",
              state |-> IF response = <<"Z", "2", "O", "N">> THEN <<"o", "n">> ELSE <<"o", "f", "f">>]
        ELSE IF response \in {<<"Z", "2", "M", "U", "O", "N">>, <<"Z", "2", "M", "U", "O", "F", "F">>}
        THEN [name |-> "zone2_mute_update",
              state |-> IF response = <<"Z", "2", "M", "U", "O", "N">> THEN <<"o", "n">> ELSE <<"o", "f", "f">>]
        ELSE IF z2 /\ AllDigits(rest)
        THEN [name |-> "zone2_volume_update",
              value |-> parse_value_with_half_step(rest)]
        ELSE IF z2 /\ \A i \in 1..Len(rest) : IsSourceChar(rest[i])
        THEN [name |-> "zone2_input_source_update", source |-> rest]
        ELSE NoEvent

\* ^PSREFLEV\s(\d+)$
parse_reference_level(response) ==
    LET match == PrefixSpaceDigits(response, <<"P", "S", "R", "E", "F", "L", "E", "V">>)
    IN  IF match # Nothing
        THEN Just([value |-> DigitsToInt(TheValue(match))])
        ELSE Nothing

\* The level is value - 50.0, in tenths.
parse_subwoofer_level_adjust(response) ==
    LET match == PrefixDigits(response, <<"P", "S", "S", "W", "L">>)
    IN  IF response \in {<<"P", "S", "S", "W", "L", " ", "O", "F", "F">>, <<"P", "S", "S", "W", "L", "O", "F", "F">>} THEN Just(StateData(<<"o", "f", "f">>))
        ELSE IF response \in {<<"P", "S", "S", "W", "L", " ", "O", "N">>, <<"P", "S", "S", "W", "L", "O", "N">>} THEN Just(StateData(<<"o", "n">>))
        ELSE IF match # Nothing
        THEN Just([value |-> parse_value_with_half_step(TheValue(match)) - 500])
        ELSE Nothing

\* ^CV([A-Z]{1,3})\s?(\d+)$
parse_channel_level(response) ==
    LET rest == Drop(response, 2)
        up(k) == k <= Len(rest) /\ \E i \in 1..26 : UpperCase[i] = rest[k]
        n == IF up(1) /\ up(2) /\ up(3) THEN 3
             ELSE IF up(1) /\ up(2) THEN 2
             ELSE IF up(1) THEN 1
             ELSE 0
        d == OptSpace(Drop(rest, n))
    IN  IF response = <<"C", "V", "E", "N", "D">>
        THEN [name |-> "channel_level_list_end"]
        ELSE IF StartsWith(response, <<"C", "V">>) /\ n > 0 /\ d # <<>> /\ AllDigits(d)
        THEN [name |-> "channel_level_update",
              channel |-> SubSeq(rest, 1, n),
              value |-> parse_value_with_half_step(d) - 500]
        ELSE NoEvent

parse_input_source(response) ==
    IF StartsWith(response, <<"S", "I">>)
    THEN Just([source |-> Drop(response, 2)])
    ELSE Nothing

(***************************************************************************)
(* The dispatch table: prefix, parser, event name (None when the parser    *)
(* returns the pair itself).                                               *)
(***************************************************************************)

Entry(prefix, parser, event_name) ==
    [prefix |-> prefix, parser |-> parser, event_name |-> event_name]

\* A variant of the table that lists the prefix MV before its extension
\* MVMAX.
ShortPrefixFirst ==
    << Entry(<<"M", "V">>, "_parse_volume", None),
       Entry(<<"M", "V", "M", "A", "X">>, "_parse_volume", None) >>

PARSER_CONFIG ==
    << Entry(<<"M", "V", "M", "A", "X">>, "_parse_volume", None),
       Entry(<<"M", "V">>, "_parse_volume", None),
       Entry(<<"M", "U">>, "_parse_mute", "mute_update"),
       Entry(<<"P", "S", "D", "I", "L">>, "_parse_dialog_level", "dialog_level_update"),
       Entry(<<"P", "S", "M", "D", "A", "X">>, "_parse_mdax", "mdax_update"),
       Entry(<<"P", "S", "C", "I", "N", "E", "Q">>, "_parse_cinema_eq", "cinema_eq_update"),
       Entry(<<"P", "S", "D", "Y", "N", "E", "Q">>, "_parse_dynamic_eq", "dynamic_eq_update"),
       Entry(<<"P", "S", "D", "Y", "N", "V", "O", "L">>, "_parse_dynamic_volume", "dynamic_volume_update"),
       Entry(<<"P", "V">>, "_parse_picture_mode", "picture_mode_update"),
       Entry(<<"P", "W">>, "_parse_power", "power_update"),
       Entry(<<"S", "I">>, "_parse_input_source", "input_source_update"),
       Entry(<<"C", "V">>, "_parse_channel_level", None),
       Entry(<<"Z", "2">>, "_parse_zone2", None),
       Entry(<<"P", "S", "R", "E", "F", "L", "E", "V">>, "_parse_reference_level", "reference_level_update"),
       Entry(<<"P", "S", "C", "E", "G">>, "_parse_center_gain", "center_gain_update"),
       Entry(<<"P", "S", "S", "W", "L">>, "_parse_subwoofer_level_adjust", "sub_level_adjust_update"),
       Entry(<<"P", "S", "S", "W", "R">>, "_parse_subwoofer_status", "subwoofer_status_update"),
       Entry(<<"P", "S", "G", "E", "Q">>, "_parse_graphic_eq", "graphic_eq_update"),
       Entry(<<"P", "S", "T", "O", "N", "E", " ", "C", "T", "R", "L", " ">>, "_parse_tone_control", "tone_control_update"),
       Entry(<<"P", "S", "D", "R", "C">>, "_parse_dynamic_range_compression", "drc_update"),
       Entry(<<"P", "S", "E", "C">>, "_parse_eco_mode", "eco_mode_update"),
       Entry(<<"S", "Y", "R", "E", "M", "O", "T", "E", " ", "L", "O", "C", "K">>, "_parse_system_lock", None),
       Entry(<<"S", "Y", "P", "A", "N", "E", "L", " ", "L", "O", "C", "K">>, "_parse_system_lock", None),
       Entry(<<"P", "S", "D", "C", "A">>, "_parse_audyssey_dyn_comp", "audyssey_dyn_comp_update"),
       Entry(<<"D", "C">>, "_parse_digital_control", "digital_control_update"),
       Entry(<<"N", "S", "E", "X", "T">>, "nsext", "nse_extended_update"),
       Entry(<<"N", "S", "P", "A", "N">>, "nspan", "pandora_login_update"),
       Entry(<<"S", "S", "I", "N", "F", "A", "I", "S", "F", "S", "V">>, "ssinfaisfsv", "signal_info_update"),
       Entry(<<"S", "S", "V", "C", "T", "Z", "M", "A", "P", "O", "N">>, "ssvctzmapon", "ssv_map_update"),
       Entry(<<"S", "V">>, "_parse_video_select", None),
       Entry(<<"S", "D">>, "_parse_sound_detail", "sound_detail_update"),
       Entry(<<"T", "R">>, "_parse_trigger", None),
       Entry(<<"P", "S", "L", "F", "E">>, "pslfe", "lfe_level_update"),
       Entry(<<"P", "S", "B", "A", "S">>, "psbas", "bass_level_update"),
       Entry(<<"P", "S", "T", "R", "E">>, "pstre", "treble_level_update"),
       Entry(<<"P", "S", "M", "O", "D", "E">>, "psmode", "parameter_mode_update"),
       Entry(<<"S", "S", "S", "M", "G">>, "sssmg", "sound_submode_update"),
       Entry(<<"Z", "M", "O", "N">>, "zmon", "main_zone_power_update"),
       Entry(<<"Z", "M", "O", "F", "F">>, "zmoff", "main_zone_power_update"),
       Entry(<<"S", "L", "P">>, "_parse_sleep_timer", "sleep_timer_update"),
       Entry(<<"T", "M">>, "_parse_tuner_status", None),
       Entry(<<"T", "F">>, "_parse_tuner_status", None),
       Entry(<<"T", "P">>, "_parse_tuner_status", None),
       Entry(<<"M", "S", "S", "M", "A", "R", "T">>, "_parse_smart_select", "smart_select_update"),
       Entry(<<"M", "S">>, "_parse_sound_mode", "sound_mode_update"),
       Entry(<<"N", "S", "F", " ">>, "_parse_play_state", "play_state_update"),
       Entry(<<"C", "R", "P", "L", "Y", "S", "T", "S", " ">>, "_parse_play_state", "play_state_update") >>

\* The parsers of the table that return the (event_name, payload) pair.
PairParser(parser, response) ==
    CASE parser = "_parse_volume" -> parse_volume(response)
      [] parser = "_parse_channel_level" -> parse_channel_level(response)
      [] parser = "_parse_zone2" -> parse_zone2(response)
      [] parser = "_parse_system_lock" -> parse_system_lock(response)
      [] parser = "_parse_video_select" -> parse_video_select(response)
      [] parser = "_parse_trigger" -> parse_trigger(response)
      [] parser = "_parse_tuner_status" -> parse_tuner_status(response)

\* The parsers of the table that return the payload, or None.
DataParser(parser, response) ==
    CASE parser = "_parse_mute" -> on_off_parser(response, <<"M", "U">>, <<"O", "N">>, <<"O", "F", "F">>)
      [] parser = "_parse_dialog_level" -> parse_dialog_level(response)
      [] parser = "_parse_mdax" ->
            multi_state_parser(response, <<"P", "S", "M", "D", "A", "X">>, "opt",
                {<<"O", "F", "F">>, <<"L", "O", "W">>, <<"M", "E", "D">>, <<"H", "I">>},
                {<<<<"m", "e", "d">>, <<"m", "e", "d", "i", "u", "m">>>>, <<<<"h", "i">>, <<"h", "i", "g", "h">>>>})
      [] parser = "_parse_cinema_eq" -> on_off_parser(response, <<"P", "S", "C", "I", "N", "E", "Q">>, <<"O", "N">>, <<"O", "F", "F">>)
      [] parser = "_parse_dynamic_eq" -> on_off_parser(response, <<"P", "S", "D", "Y", "N", "E", "Q">>, <<"O", "N">>, <<"O", "F", "F">>)
      [] parser = "_parse_dynamic_volume" ->
            multi_state_parser(response, <<"P", "S", "D", "Y", "N", "V", "O", "L">>, "opt",
                {<<"O", "F", "F">>, <<"L", "I", "T">>, <<"M", "E", "D">>, <<"H", "E", "V">>},
                {<<<<"l", "i", "t">>, <<"l", "i", "g", "h", "t">>>>, <<<<"m", "e", "d">>, <<"m", "e", "d", "i", "u", "m">>>>, <<<<"h", "e", "v">>, <<"h", "e", "a", "v", "y">>>>})
      [] parser = "_parse_picture_mode" -> parse_picture_mode(response)
      [] parser = "_parse_power" -> on_off_parser(response, <<"P", "W">>, <<"O", "N">>, <<"S", "T", "A", "N", "D", "B", "Y">>)
      [] parser = "_parse_input_source" -> parse_input_source(response)
      [] parser = "_parse_reference_level" -> parse_reference_level(response)
      [] parser = "_parse_center_gain" -> parse_center_gain(response)
      [] parser = "_parse_subwoofer_level_adjust" -> parse_subwoofer_level_adjust(response)
      [] parser = "_parse_subwoofer_status" -> on_off_parser(response, <<"P", "S", "S", "W", "R", " ">>, <<"O", "N">>, <<"O", "F", "F">>)
      [] parser = "_parse_graphic_eq" -> on_off_parser(response, <<"P", "S", "G", "E", "Q">>, <<"O", "N">>, <<"O", "F", "F">>)
      [] parser = "_parse_tone_control" ->
            on_off_parser(response, <<"P", "S", "T", "O", "N", "E", " ", "C", "T", "R", "L", " ">>, <<"O", "N">>, <<"O", "F", "F">>)
      [] parser = "_parse_dynamic_range_compression" ->
            multi_state_parser(response, <<"P", "S", "D", "R", "C">>, "req",
                {<<"O", "F", "F">>, <<"L", "O", "W">>, <<"M", "I", "D">>, <<"H", "I">>},
                {<<<<"m", "i", "d">>, <<"m", "e", "d", "i", "u", "m">>>>, <<<<"h", "i">>, <<"h", "i", "g", "h">>>>})
      [] parser = "_parse_eco_mode" ->
            multi_state_parser(response, <<"P", "S", "E", "C">>, "opt", {<<"O", "N">>, <<"A", "U", "T", "O">>, <<"O", "F", "F">>}, {})
      [] parser = "_parse_audyssey_dyn_comp" ->
            multi_state_parser(response, <<"P", "S", "D", "C", "A">>, "opt", {<<"A", "U", "T", "O">>, <<"O", "F", "F">>}, {})
      [] parser = "_parse_digital_control" ->
            multi_state_parser(response, <<"D", "C">>, "none",
                {<<"A", "U", "T", "O">>, <<"A", "N", "A", "L", "O", "G">>, <<"H", "D", "M", "I">>, <<"D", "I", "G", "I", "T", "A", "L">>}, {})
      [] parser = "nsext" -> on_off_parser(response, <<"N", "S", "E", "X", "T", " ">>, <<"O", "N">>, <<"O", "F", "F">>)
      [] parser = "nspan" -> parse_nspan(response)
      [] parser = "ssinfaisfsv" -> rest_state_parser(response, <<"S", "S", "I", "N", "F", "A", "I", "S", "F", "S", "V">>, "req")
      [] parser = "ssvctzmapon" -> rest_state_parser(response, <<"S", "S", "V", "C", "T", "Z", "M", "A", "P", "O", "N">>, "req")
      [] parser = "_parse_sound_detail" ->
            multi_state_parser(response, <<"S", "D">>, "opt",
                {<<"A", "U", "T", "O">>, <<"A", "N", "A", "L", "O", "G">>, <<"H", "D", "M", "I">>, <<"A", "R", "C">>}, {})
      [] parser = "pslfe" -> numeric_parser(response, <<"P", "S", "L", "F", "E">>)
      [] parser = "psbas" -> numeric_parser(response, <<"P", "S", "B", "A", "S">>)
      [] parser = "pstre" -> numeric_parser(response, <<"P", "S", "T", "R", "E">>)
      [] parser = "psmode" -> rest_state_parser(response, <<"P", "S", "M", "O", "D", "E", ":">>, "none")
      [] parser = "sssmg" -> rest_state_parser(response, <<"S", "S", "S", "M", "G">>, "req")
      [] parser = "zmon" -> Just(StateData(<<"o", "n">>))
      [] parser = "zmoff" -> Just(StateData(<<"o", "f", "f">>))
      [] parser = "_parse_sleep_timer" -> parse_sleep_timer(response)
      [] parser = "_parse_smart_select" -> parse_smart_select(response)
      [] parser = "_parse_sound_mode" -> parse_sound_mode(response)
      [] parser = "_parse_play_state" -> parse_play_state(response)

\* A variant of FirstMatchFrom that gives the last entry, from i on, whose
\* prefix the line starts with.
LastMatchFrom(response, i) ==
    LET found(m) == IF m = {} THEN 0 ELSE CHOOSE k \in m : \A j \in m : j <= k
    IN  found({k \in i..Len(PARSER_CONFIG) : StartsWith(response, PARSER_CONFIG[k].prefix)})

RECURSIVE FirstMatchFrom(_, _)
\* The index of the first entry, from the i-th on, whose prefix the line
\* starts with, or 0: the for loop of parse_response with its
\* "if response.startswith(prefix)".
FirstMatchFrom(response, i) ==
    IF i > Len(PARSER_CONFIG) THEN 0
    ELSE IF StartsWith(response, PARSER_CONFIG[i].prefix) THEN i
    ELSE FirstMatchFrom(response, i + 1)

FirstMatch(response) == FirstMatchFrom(response, 1)

\* parse_response, after the OSD parser returned None: the loop over the
\* dispatch table.
Dispatch(response) ==
    LET named(event_name, data) ==
            IF data # Nothing THEN [name |-> event_name] @@ TheValue(data)
            ELSE NoEvent
        entry(e) ==
            IF e.event_name = None THEN PairParser(e.parser, response)
            ELSE named(e.event_name, DataParser(e.parser, response))
        match(i) == IF i = 0 THEN NoEvent ELSE entry(PARSER_CONFIG[i])
    IN  match(FirstMatch(response))

\* parse_response: the OSD parser first, then the table.  The outcome holds
\* the event and what the line left of the OSD parser's state.
parse_response(response, ctx, pend, now) ==
    LET result(osd) ==
            IF osd.ev # NoEvent THEN osd
            ELSE Outcome(Dispatch(response), osd.ctx, osd.pend)
    IN  result(OsdParse(response, ctx, pend, now))

(***************************************************************************)
(* TelnetEventHandler.process_data                                         *)
(***************************************************************************)

\* The bytes outside ASCII that the model's inbound data holds: 0xC3 0xB6
\* is the UTF-8 form of U+00F6, 0xF6 its latin-1 form; 0xC3 0xB2 is the
\* UTF-8 form of U+00F2 and 0xB2 the latin-1 form of U+00B2 (superscript
\* two).
NonAscii == {"xC3", "xB6", "xF6", "xB2"}

RECURSIVE Utf8Valid(_)
\* raw_data.decode('utf-8') does not raise.
Utf8Valid(b) ==
    IF b = <<>> THEN TRUE
    ELSE IF b[1] \notin NonAscii THEN Utf8Valid(Tail(b))
    ELSE IF b[1] = "xC3" /\ Len(b) >= 2 /\ b[2] \in {"xB6", "xB2"} THEN Utf8Valid(Drop(b, 2))
    ELSE FALSE

RECURSIVE Utf8Decode(_)
Utf8Decode(b) ==
    IF b = <<>> THEN <<>>
    ELSE IF b[1] = "xC3"
    THEN <<IF b[2] = "xB6" THEN "U+00F6" ELSE "U+00F2">> \o Utf8Decode(Drop(b, 2))
    ELSE <<b[1]>> \o Utf8Decode(Tail(b))

\* raw_data.decode('latin-1'): every byte is the code point of its value.
Latin1Decode(b) ==
    [i \in 1..Len(b) |->
        CASE b[i] = "xC3" -> "U+00C3"
          [] b[i] = "xB6" -> "U+00B6"
          [] b[i] = "xF6" -> "U+00F6"
          [] b[i] = "xB2" -> "U+00B2"
          [] OTHER -> b[i]]

\* A variant of Decode that always decodes with the fallback.
DecodeFallbackOnly(raw_data) == Latin1Decode(raw_data)

\* The try/except that opens process_data.
Decode(raw_data) ==
    IF Utf8Valid(raw_data) THEN Utf8Decode(raw_data) ELSE Latin1Decode(raw_data)

RECURSIVE SplitLines(_, _)
\* re.split(r'[\r\n]+', s) without the empty parts; cur is the part being
\* read.
SplitLines(s, cur) ==
    IF s = <<>>
    THEN IF cur = <<>> THEN <<>> ELSE <<cur>>
    ELSE IF s[1] \in {"CR", "LF"}
    THEN (IF cur = <<>> THEN <<>> ELSE <<cur>>) \o SplitLines(Tail(s), <<>>)
    ELSE SplitLines(Tail(s), cur \o <<s[1]>>)

\* The lines process_data hands to parse_response.
LinesOf(raw_data) ==
    LET parts == SplitLines(Decode(raw_data), <<>>)
    IN  SelectSeq([i \in 1..Len(parts) |-> Strip(parts[i])], LAMBDA l : l # <<>>)

\* What one line did: the line, the parser's state before and after it,
\* the clock and the event emitted (NoEvent: nothing was emitted).
Step(line, ctx, pend, out) ==
    [line |-> line, ctx |-> ctx, pend |-> pend,
     ev |-> out.ev, ctx2 |-> out.ctx, pend2 |-> out.pend]

RECURSIVE ProcessLines(_, _, _, _)
\* The loop of process_data over the lines: the steps taken, from the
\* parser state (ctx, pend).  An exception a line raises ends the loop.
ProcessLines(lines, ctx, pend, now) ==
    IF lines = <<>> THEN <<>>
    ELSE LET rest(out) ==
                 <<Step(Head(lines), ctx, pend, out)>>
                 \o (IF out.ev = ValueError THEN <<>>
                     ELSE ProcessLines(Tail(lines), out.ctx, out.pend, now))
         IN  rest(parse_response(Head(lines), ctx, pend, now))

(***************************************************************************)
(* The setter commands: src/commands and _handle_setter_command.  A value  *)
(* is held in tenths, as the decoder's floats are (50.5 is 505).           *)
(***************************************************************************)

\* f"{n:0<width>d}" and '{:0<width>d}'.format(n), for n >= 0
ZeroPadded(n, width) ==
    LET s == IntToStr(n)
    IN  IF Len(s) >= width THEN s
        ELSE [i \in 1..(width - Len(s)) |-> "0"] \o s

\* A variant of format_volume that does not pad the half steps.
format_volume_unpadded(v) ==
    IF v % 10 = 5 THEN IntToStr(v) ELSE ZeroPadded(v \div 10, 2)

\* format_volume: three digits for a half step, two for a whole number.
format_volume(v) ==
    IF v % 10 = 5 THEN ZeroPadded(v, 3) ELSE ZeroPadded(v \div 10, 2)

\* format_dialog_level
format_dialog_level(v) ==
    IF v % 10 = 5 THEN IntToStr(v) ELSE IntToStr(v \div 10)

\* format_center_gain: int(round(num_value * 10)), two digits.
format_center_gain(v) == ZeroPadded(v, 2)

\* The setters of COMMAND_MAP that hold a value_range: the code up to
\* {value}, the range (in units), and the formatter or the value_format.
SetterNames ==
    {"VOLUME_SET", "DIALOG_LEVEL_SET", "CENTER_GAIN_SET", "ZONE2_VOLUME_SET", "SLEEP_SET"}

COMMAND_MAP ==
    [name \in SetterNames |->
        CASE name = "VOLUME_SET" ->
                [code |-> <<"M", "V">>, value_range |-> <<0, 98>>, formatter |-> "format_volume", value_format |-> 0]
          [] name = "DIALOG_LEVEL_SET" ->
                [code |-> <<"P", "S", "D", "I", "L", " ">>, value_range |-> <<38, 62>>, formatter |-> "format_dialog_level", value_format |-> 0]
          [] name = "CENTER_GAIN_SET" ->
                [code |-> <<"P", "S", "C", "E", "G">>, value_range |-> <<0, 1>>, formatter |-> "format_center_gain", value_format |-> 0]
          [] name = "ZONE2_VOLUME_SET" ->
                [code |-> <<"Z", "2">>, value_range |-> <<0, 98>>, formatter |-> None, value_format |-> 2]
          [] name = "SLEEP_SET" ->
                [code |-> <<"S", "L", "P">>, value_range |-> <<1, 120>>, formatter |-> None, value_format |-> 3]]

\* _handle_setter_command, from the range check on: the final command, or
\* Nothing when the value is out of range.  value_format is applied to
\* int(numeric_value).
handle_setter_command(command_name, v) ==
    LET command_info == COMMAND_MAP[command_name]
        formatted_value ==
            CASE command_info.formatter = "format_volume" -> format_volume(v)
              [] command_info.formatter = "format_dialog_level" -> format_dialog_level(v)
              [] command_info.formatter = "format_center_gain" -> format_center_gain(v)
              [] OTHER -> ZeroPadded(v \div 10, command_info.value_format)
    IN  IF 10 * command_info.value_range[1] <= v /\ v <= 10 * command_info.value_range[2]
        THEN Just(command_info.code \o formatted_value)
        ELSE Nothing

(***************************************************************************)
(* State.                                                                  *)
(***************************************************************************)

VARIABLES
    context,                \* _osd_parser.context
    pending_selected_line,  \* _osd_parser._pending_selected_line
    clock,                  \* time.time()
    steps,                  \* the lines of the last process_data call, and
                            \* what each did
    received,               \* raw_data of the last process_data call
    decoded_data            \* decoded_data of the last process_data call

osdVars == <<context, pending_selected_line, clock, steps, received, decoded_data>>

(***************************************************************************)
(* MarantzTelnetClient.  The foreground threads call start, send_command,  *)
(* send_command_fire_and_forget and close; the background thread runs the  *)
(* event loop, whose tasks (the main task, the keep-alive task, one task   *)
(* per posted command, the posted _close_async) run one step at a time,    *)
(* from one await to the next.  The time of the foreground waits is        *)
(* counted in ticks; the sleeps of the loop end at any later moment.       *)
(***************************************************************************)

VARIABLES
    running,        \* self._running
    reader,         \* self._reader is not None
    writer,         \* self._writer is not None
    link,           \* the transport the streams were opened on: "none", "up",
                    \* "eof" (the peer closed its side), "reset" (lost with an
                    \* error), "closed" (closed by writer.close())
    lock,           \* self._lock: "free" or the thread that holds it
    loop_state,     \* the thread and its loop: "new", "started", "running",
                    \* "closed"
    ready,          \* what was posted to the loop and has not run yet
    mainpc,         \* where _manage_connection_and_listen stands
    sync_left,      \* the queries perform_initial_sync has still to post
    reconnect_wait, \* the delay of the last asyncio.sleep of the main task
    kapc,           \* where _send_keep_alive stands
    closepc,        \* where the _close_async posted by close stands
    sends,          \* the _send_command_async of each thread's send_command
    queries,        \* the _send_command_async of the fire-and-forget posts
    thr,            \* where each foreground thread stands
    deviceUp,       \* the receiver accepts connections
    callback_log    \* the last established / lost callbacks, oldest first

clientVars ==
    <<running, reader, writer, link, lock, loop_state, ready,
      mainpc, sync_left, reconnect_wait, kapc, closepc, sends, queries, thr,
      deviceUp, callback_log>>

(***************************************************************************)
(* The bytes of the transport.  The write path: the commands posted to the *)
(* loop and the bytes _send_command_async writes.  The read path: the      *)
(* chunks _listen_for_updates reads, its buffer and the segments it hands  *)
(* to the data callback.                                                   *)
(***************************************************************************)

VARIABLES
    posted,           \* the posted commands whose task has not started, oldest first
    issued,           \* how many commands have been posted
    wire,             \* the bytes written to the socket, in order
    written,          \* the commands written, in order (n = 0: the keep-alive)
    transport_writer, \* _writer is set
    listening,        \* the loop of _listen_for_updates goes on
    line_buffer,      \* _line_buffer
    stream,           \* the bytes read on this connection, in order
    forwarded,        \* the segments passed to data_callback on this connection
    chunk             \* what the last read of this connection returned, if any

ioVars ==
    <<posted, issued, wire, written, transport_writer, listening,
      line_buffer, stream, forwarded, chunk>>

vars == <<osdVars, clientVars, ioVars>>

(***************************************************************************)
(* The inbound data of the model.                                          *)
(***************************************************************************)

\* How far the clock runs past its start.
MaxClockAdvance == 6

\* The clock when the program starts: time.time() is far beyond the
\* timeout, so the first OSD line finds the fresh context timed out.
StartClock == context_timeout + 1

NSE(slot, text) == <<"N", "S", "E", slot>> \o text

Titles == {<<"N", "o", "w", " ", "P", "l", "a", "y", "i", "n", "g">>, <<"N", "O", "W", " ", "P", "L", "A", "Y", "I", "N", "G">>, <<"M", "e", "n", "u">>, <<"M", "E", "N", "U">>, <<"S", "e", "t", "u", "p", " ", "M", "e", "n", "u">>}

ContentLines ==
    { NSE("1", <<"SOH">> \o <<"S", "o", "n", "g", " ", "A">>),
      NSE("1", <<"ENQ">> \o <<"I", "t", "e", "m">>),
      NSE("2", <<"EOT">> \o <<"S", "e", "l">>),
      NSE("2", <<"EOT">>),
      NSE("3", <<"STX">> \o <<"A", "c", "t">>),
      NSE("3", <<"LF">> \o <<"S", "e", "l">>),
      NSE("4", <<"P", "l", "a", "i", "n">>),
      NSE("5", <<" ", "1", ":", "2", "3", " ", "4", "5", "%">>),
      NSE("1", <<"ENQ", "M", "xF6", "t">>),
      NSE("4", <<"A", "NUL", "l", "DEL">>),
      NSE("8", <<"$", "S", "t", "n">>),
      NSE("8", <<>>) }

\* The bytes a content line of the model starts with: the signifiers and a
\* letter.
LeadBytes == {"SOH", "ENQ", "EOT", "STX", "ACK", "SO", "A"}

\* The slots of the content lines that begin with each of these bytes.
LeadSlots == {"1", "2", "3", "4", "5", "6", "7", "9"}

\* A content line of every such slot for every such byte, and the lines
\* of the now-playing and pagination slots in their other forms.
SignifierLines ==
    {NSE(slot, <<b, "I", "t">>) : slot \in LeadSlots, b \in LeadBytes}
    \cup { NSE("3", <<"SOH">>),
           NSE("3", <<"SOH", "NUL", " ">>),
           NSE("4", <<"SOH", "A", "l">>),
           NSE("4", <<"SOH", "NUL">>),
           NSE("5", <<"1", ":", "2", "3">>),
           NSE("5", <<"SOH", "4", "5", "%">>),
           NSE("5", <<"1", "2", ":", "3", "4", ":", "5", "6", " ", "1", "0", "0", "%">>),
           NSE("5", <<"n", "o", "n", "e">>),
           NSE("8", <<"$">>),
           NSE("8", <<"$", "$", "SOH", "P", "1">>),
           NSE("8", <<"EOT", "P", "2">>),
           NSE("8", <<" ", "$", "P">>) }

\* The slots the device sends an empty content line for.
EmptySlots == {"1", "2", "3", "4", "5", "6", "7", "9"}

OtherLines == {<<"S", "DEL", "e", "NUL", "l">>, <<"S", "e", "l", "e", "c", "t", "e", "d", " ", "T", "e", "x", "t">>, <<"M", "V", "5", "0">>, <<"N", "S", "E", "X", "T", " ", "O", "N">>, <<"X", "Y", "Z">>, <<"SOH">>}

\* Packets that hold two lines, the second after a line feed.
TwoLinePackets ==
    {NSE("2", <<"LF">> \o t) : t \in {<<"S", "e", "l", "e", "c", "t", "e", "d", " ", "T", "e", "x", "t">>, <<"N", "S", "E", "X", "T", " ", "O", "N">>}}

\* The lines the device sends (without the carriage return).
DeviceLines ==
    {NSE("0", t) : t \in Titles}
    \cup ContentLines
    \cup SignifierLines
    \cup {NSE(s, <<>>) : s \in EmptySlots}
    \cup OtherLines
    \cup TwoLinePackets

\* What the transport hands to data_callback: one segment of the inbound
\* bytes with the carriage return put back.
Segments == {l \o <<"CR">> : l \in DeviceLines}

(***************************************************************************)
(* The decoder's actions.                                                  *)
(***************************************************************************)

OsdInit ==
    /\ context = create_default_context
    /\ pending_selected_line = Nothing
    /\ clock = StartClock
    /\ steps = <<>>
    /\ received = <<>>
    /\ decoded_data = <<>>

\* The read loop calls data_callback(raw_data), which is
\* TelnetEventHandler.process_data: every line of the segment is parsed and
\* its event emitted.
ProcessData(raw_data) ==
    /\ steps = <<>>
    /\ received' = raw_data
    /\ decoded_data' = Decode(raw_data)
    /\ steps' = ProcessLines(LinesOf(raw_data), context, pending_selected_line, clock)
    /\ context' = IF steps' = <<>> THEN context ELSE steps'[Len(steps')].ctx2
    /\ pending_selected_line' =
           IF steps' = <<>> THEN pending_selected_line ELSE steps'[Len(steps')].pend2
    /\ UNCHANGED clock
    /\ UNCHANGED <<clientVars, ioVars>>

\* process_data has returned and the read loop waits for the next bytes.
AwaitRead ==
    /\ steps # <<>>
    /\ steps' = <<>>
    /\ received' = <<>>
    /\ decoded_data' = <<>>
    /\ UNCHANGED <<context, pending_selected_line, clock>>
    /\ UNCHANGED <<clientVars, ioVars>>

\* Time passes while the read loop waits.
Advance(d) ==
    /\ steps = <<>>
    /\ clock + d <= StartClock + MaxClockAdvance
    /\ clock' = clock + d
    /\ UNCHANGED <<context, pending_selected_line, steps, received, decoded_data>>
    /\ UNCHANGED <<clientVars, ioVars>>

OsdNext ==
    \/ \E raw_data \in Segments : ProcessData(raw_data)
    \/ AwaitRead
    \/ \E d \in {context_timeout, context_timeout + 1} : Advance(d)

(***************************************************************************)
(* The status lines of the receiver and the echoes of the setters, for the *)
(* decoder alone.                                                          *)
(***************************************************************************)

\* The digits the values of the status lines are written with.
ValueDigits == {"0", "4", "5", "9"}

\* The strings of n of these digits.
DigitStrings(n) == [1..n -> ValueDigits]

\* The prefixes of the responses that hold a half-step value.
HalfStepPrefixes ==
    {<<"M", "V">>, <<"M", "V", "M", "A", "X">>, <<"M", "V", "M", "A", "X", " ">>, <<"P", "S", "D", "I", "L">>, <<"P", "S", "D", "I", "L", " ">>, <<"Z", "2">>, <<"P", "S", "S", "W", "L">>, <<"P", "S", "S", "W", "L", " ">>, <<"C", "V", "F", "L", " ">>, <<"C", "V", "C">>}

\* What follows the prefix of a table entry in the status lines of the
\* model.
Suffixes ==
    {<<>>,
     <<"O", "N">>,
     <<"O", "F", "F">>,
     <<" ", "O", "N">>,
     <<" ", "O", "F", "F">>,
     <<"1">>,
     <<" ", "5", "0">>,
     <<"X">>,
     <<"A", "N", " ", "8", "7", "5", "0">>,
     <<"A", "U", "T", "O">>,
     <<" ", "L", "O", "C", "K", " ", "O", "N">>,
     <<"S", "M", "A", "R", "T", "1">>,
     <<"M", "O", "V", "I", "E">>,
     <<"P", "L", "A", "Y">>,
     <<"U", "S", "N", " ", "a">>,
     <<"S", "T", "D">>,
     <<"1", " ", "O", "N">>,
     <<"H", "I">>,
     <<" ", "H", "I">>}

\* The values (in tenths) the setters are called with: the half steps up to
\* MaxSetterValue units and every tenth up to MaxGainTenths.
MaxSetterValue == 125

MaxGainTenths == 15

SetterValues ==
    {v \in 0..(10 * MaxSetterValue) : v % 5 = 0} \cup 0..MaxGainTenths

StatusLines ==
    {p \o d : p \in HalfStepPrefixes, d \in DigitStrings(2) \cup DigitStrings(3)}
    \cup {PARSER_CONFIG[i].prefix \o x : i \in 1..Len(PARSER_CONFIG), x \in Suffixes}
    \cup {<<"M", "V", "M", "A", "X", "7", "3", "5">>, <<"M", "V", "M", "A", "X", " ", "7", "3">>, <<"M", "V", "5">>, <<"M", "V", "0", "5", "0", "5">>, <<"M", "V", "M", "A", "X", "7">>, <<"X", "Y", "Z">>, <<"M", "V", "M", "A", "X", "X">>, <<"M", "V", " ", "5", "0">>, <<"C", "V", "E", "N", "D">>}
    \cup {NSE("0", <<"S", "e", "t", "u", "p", " ", "M", "e", "n", "u">>), NSE("2", <<>>)}
    \cup {<<"T", "F", "A", "N", "xB2">>,
          <<"T", "F", "A", "N", "xC3", "xB2">>,
          <<"T", "F", "A", "N", "xB2", "LF", "M", "V", "5", "0">>,
          <<"X", "Y", "Z", "LF", "M", "V", "5", "0">>,
          <<"T", "F", "A", "N", "xC3", "xB6", "xF6">>,
          <<"T", "F", "A", "N", "xC3">>}

StatusSegments == {l \o <<"CR">> : l \in StatusLines}

\* The API is called with a setter and a value, the handler sends the final
\* command, and the receiver answers with the line that echoes it; the
\* read loop hands the line to process_data.
SetterEcho(command_name, v) ==
    /\ handle_setter_command(command_name, v) # Nothing
    /\ ProcessData(TheValue(handle_setter_command(command_name, v)) \o <<"CR">>)

DecodeNext ==
    \/ \E raw_data \in StatusSegments : ProcessData(raw_data)
    \/ \E command_name \in SetterNames : \E v \in SetterValues : SetterEcho(command_name, v)
    \/ AwaitRead

Threads == {"t1", "t2"}

\* The ticks of TELNET_OPERATION_TIMEOUT and of SHUTDOWN_TIMEOUT_SECONDS,
\* both 5 seconds.
TimeoutTicks == 1

\* The fire-and-forget commands followed at a time.
MaxQueries == 1

\* The queries of INITIAL_STATUS_QUERY.
SyncCommands == 1

\* The callbacks callback_log keeps.
MaxLog == 2

TELNET_OPERATION_TIMEOUT == TimeoutTicks

SHUTDOWN_TIMEOUT_SECONDS == TimeoutTicks

RECONNECT_DELAY_SECONDS == 10

\* The ticks a thread's time inside send_command is counted up to.
MaxBlocked == TimeoutTicks + 1

QueryIds == 1..MaxQueries

Idle ==
    [pc |-> "idle", waited |-> 0, blocked |-> 0, result |-> "none"]

Item(kind, who, n) == [kind |-> kind, who |-> who, n |-> n]

MainItem == Item("main", "-", 0)

SendItem(t) == Item("send", t, 0)

QueryItem(i) == Item("query", "-", i)

CloseItem == Item("close_async", "-", 0)

StopItem == Item("stop", "-", 0)

\* is_connected()
is_connected == writer /\ link \notin {"reset", "closed"}

Logged(name) ==
    IF Len(callback_log) < MaxLog
    THEN Append(callback_log, name)
    ELSE Append(Tail(callback_log), name)

\* The loop can run a step of a task: the thread is in run_forever and is
\* not inside the established callback.
LoopFree == loop_state = "running" /\ mainpc # "established"

HeadIs(item) == ready # <<>> /\ Head(ready) = item

\* The least free slot of a fire-and-forget command, as a set.
FreeQuery ==
    {i \in QueryIds : queries[i] = "free" /\ \A j \in QueryIds : queries[j] = "free" => i <= j}

ClientInit ==
    /\ running = TRUE
    /\ reader = FALSE
    /\ writer = FALSE
    /\ link = "none"
    /\ lock = "free"
    /\ loop_state = "new"
    /\ ready = <<>>
    /\ mainpc = "unposted"
    /\ sync_left = 0
    /\ reconnect_wait = 0
    /\ kapc = "none"
    /\ closepc = "none"
    /\ sends = [t \in Threads |-> "free"]
    /\ queries = [i \in QueryIds |-> "free"]
    /\ thr = [t \in Threads |-> Idle]
    /\ deviceUp \in BOOLEAN
    /\ callback_log = <<>>

(***************************************************************************)
(* _send_command_async                                                     *)
(***************************************************************************)

\* Up to the sleep: no writer raises ConnectionError; on a lost transport
\* drain raises; else the command is written and flushed.
StartWrite ==
    IF ~writer THEN "not_connected"
    ELSE IF link \in {"reset", "closed"} THEN "write_error"
    ELSE "delay"

\* The task of a send_command ends: its outcome waits for the thread that
\* waits for it, if there is one still.
Settled(t, outcome) == IF thr[t].pc = "send_wait" THEN outcome ELSE "free"

\* A variant of SendResult that reports every outcome as a success.
SendResultAlwaysSuccess(outcome) == "success"

\* The result send_command returns for the outcome of future.result.
SendResult(outcome) ==
    IF outcome = "done" THEN "success"
    ELSE IF outcome = "timeout" THEN "timeout"
    ELSE "error"

(***************************************************************************)
(* The main task.                                                          *)
(***************************************************************************)

\* A variant of MainLeavesConnection that gives up after the first attempt
\* or connection.
MainGivesUp ==
    /\ mainpc' = "finished"
    /\ UNCHANGED <<callback_log, reconnect_wait>>

\* _manage_connection_and_listen after the connection attempt and the
\* listening: the lost callback and the sleep, then the test of the while.
MainLeavesConnection ==
    IF running
    THEN /\ callback_log' = Logged("lost")
         /\ mainpc' = "sleep"
         /\ reconnect_wait' = RECONNECT_DELAY_SECONDS
    ELSE /\ mainpc' = "finished"
         /\ UNCHANGED <<callback_log, reconnect_wait>>

\* The test of the while of the main task and the start of _connect.
ConnectBegin ==
    IF ~running
    THEN mainpc' = "finished" /\ UNCHANGED link
    ELSE IF writer
    THEN /\ link' = IF link \in {"up", "eof"} THEN "closed" ELSE link
         /\ mainpc' = "wait_closed"
    ELSE mainpc' = "opening" /\ UNCHANGED link

\* The first step of the main task.
MainStart ==
    /\ LoopFree
    /\ HeadIs(MainItem)
    /\ ready' = Tail(ready)
    /\ ConnectBegin
    /\ UNCHANGED <<running, reader, writer, lock, loop_state, sync_left,
                   reconnect_wait, kapc, closepc, sends, queries, thr,
                   deviceUp, callback_log>>
    /\ UNCHANGED <<osdVars, ioVars>>

\* The sleep of the main task ends.
MainWake ==
    /\ LoopFree
    /\ mainpc = "sleep"
    /\ ConnectBegin
    /\ UNCHANGED <<running, reader, writer, lock, loop_state,
                   ready, sync_left, reconnect_wait, kapc, closepc, sends,
                   queries, thr, deviceUp, callback_log>>
    /\ UNCHANGED <<osdVars, ioVars>>

\* _connect: wait_closed returns, or raises the error the old transport was
\* lost with and the attempt fails.
MainWaitClosed ==
    /\ LoopFree
    /\ mainpc = "wait_closed"
    /\ IF link = "reset"
       THEN /\ reader' = FALSE
            /\ writer' = FALSE
            /\ link' = "none"
            /\ MainLeavesConnection
       ELSE /\ mainpc' = "opening"
            /\ UNCHANGED <<reader, writer, link, callback_log, reconnect_wait>>
    /\ UNCHANGED <<running, lock, loop_state, ready, sync_left,
                   kapc, closepc, sends, queries, thr, deviceUp>>
    /\ UNCHANGED <<osdVars, ioVars>>

\* _connect: open_connection returns and the established callback begins,
\* or the attempt fails.
MainOpen ==
    /\ LoopFree
    /\ mainpc = "opening"
    /\ IF deviceUp
       THEN /\ reader' = TRUE
            /\ writer' = TRUE
            /\ link' = "up"
            /\ callback_log' = Logged("established")
            /\ mainpc' = "established"
            /\ sync_left' = SyncCommands
            /\ UNCHANGED reconnect_wait
       ELSE /\ reader' = FALSE
            /\ writer' = FALSE
            /\ link' = "none"
            /\ MainLeavesConnection
            /\ UNCHANGED sync_left
    /\ UNCHANGED <<running, lock, loop_state, ready, kapc,
                   closepc, sends, queries, thr, deviceUp>>
    /\ UNCHANGED <<osdVars, ioVars>>

\* The test of the while of _listen_for_updates.
ListenGoesOn == running /\ reader /\ link \notin {"eof", "closed"}

\* A variant of LoopFireAndForget in which _connect creates a keep-alive
\* task whether or not the one before has ended.
LoopFireAndForgetNewTask ==
    /\ loop_state = "running"
    /\ mainpc = "established"
    /\ lock = "free"
    /\ sync_left' = sync_left - 1
    /\ IF running /\ FreeQuery # {}
       THEN \E i \in FreeQuery :
               /\ queries' = [queries EXCEPT ![i] = "posted"]
               /\ ready' = Append(ready, QueryItem(i))
       ELSE UNCHANGED <<queries, ready>>
    /\ IF sync_left > 1
       THEN UNCHANGED <<mainpc, kapc, callback_log, reconnect_wait>>
       ELSE /\ kapc' = "created"
            /\ IF ListenGoesOn
               THEN mainpc' = "reading" /\ UNCHANGED <<callback_log, reconnect_wait>>
               ELSE MainLeavesConnection
    /\ UNCHANGED <<running, reader, writer, link, lock, loop_state, closepc,
                   sends, thr, deviceUp>>
    /\ UNCHANGED <<osdVars, ioVars>>

\* perform_initial_sync, in the established callback on the loop's thread:
\* one send_command_fire_and_forget; after the last one _connect creates
\* the keep-alive task and the main task goes to listen.  A command posted
\* when MaxQueries are in flight is not followed.
LoopFireAndForget ==
    /\ loop_state = "running"
    /\ mainpc = "established"
    /\ lock = "free"
    /\ sync_left' = sync_left - 1
    /\ IF running /\ FreeQuery # {}
       THEN \E i \in FreeQuery :
               /\ queries' = [queries EXCEPT ![i] = "posted"]
               /\ ready' = Append(ready, QueryItem(i))
       ELSE UNCHANGED <<queries, ready>>
    /\ IF sync_left > 1
       THEN UNCHANGED <<mainpc, kapc, callback_log, reconnect_wait>>
       ELSE /\ kapc' = IF kapc \in {"none", "done"} THEN "created" ELSE kapc
            /\ IF ListenGoesOn
               THEN mainpc' = "reading" /\ UNCHANGED <<callback_log, reconnect_wait>>
               ELSE MainLeavesConnection
    /\ UNCHANGED <<running, reader, writer, link, lock, loop_state, closepc,
                   sends, thr, deviceUp>>
    /\ UNCHANGED <<osdVars, ioVars>>

\* _listen_for_updates: read returns a chunk and its lines are passed to
\* the data callback.
MainReadChunk ==
    /\ LoopFree
    /\ mainpc = "reading"
    /\ link = "up"
    /\ IF ListenGoesOn
       THEN UNCHANGED <<mainpc, callback_log, reconnect_wait>>
       ELSE MainLeavesConnection
    /\ UNCHANGED <<running, reader, writer, link, lock, loop_state, ready,
                   sync_left, kapc, closepc, sends, queries, thr, deviceUp>>
    /\ UNCHANGED <<osdVars, ioVars>>

\* _listen_for_updates: read returns the empty chunk and the loop breaks.
MainReadEmpty ==
    /\ LoopFree
    /\ mainpc = "reading"
    /\ link \notin {"up", "reset"}
    /\ MainLeavesConnection
    /\ UNCHANGED <<running, reader, writer, link, lock,
                   loop_state, ready, sync_left, kapc, closepc, sends,
                   queries, thr, deviceUp>>
    /\ UNCHANGED <<osdVars, ioVars>>

\* _listen_for_updates: read raises and _close_async begins.
MainReadError ==
    /\ LoopFree
    /\ mainpc = "reading"
    /\ link = "reset"
    /\ kapc' = IF kapc \in {"none", "done"} THEN kapc ELSE "done"
    /\ IF writer
       THEN mainpc' = "read_closing" /\ UNCHANGED <<callback_log, reconnect_wait>>
       ELSE MainLeavesConnection
    /\ UNCHANGED <<running, reader, writer, link, lock,
                   loop_state, ready, sync_left, closepc, sends, queries,
                   thr, deviceUp>>
    /\ UNCHANGED <<osdVars, ioVars>>

\* _listen_for_updates: the _close_async after a read error ends.
MainReadClosed ==
    /\ LoopFree
    /\ mainpc = "read_closing"
    /\ reader' = FALSE
    /\ writer' = FALSE
    /\ link' = "none"
    /\ MainLeavesConnection
    /\ UNCHANGED <<running, lock, loop_state, ready, sync_left,
                   kapc, closepc, sends, queries, thr, deviceUp>>
    /\ UNCHANGED <<osdVars, ioVars>>

(***************************************************************************)
(* _send_keep_alive                                                        *)
(***************************************************************************)

KeepAliveBegin ==
    /\ LoopFree
    /\ kapc = "created"
    /\ kapc' = IF running /\ writer THEN "sleeping" ELSE "done"
    /\ UNCHANGED <<running, reader, writer, link, lock,
                   loop_state, ready, mainpc, sync_left, reconnect_wait,
                   closepc, sends, queries, thr, deviceUp, callback_log>>
    /\ UNCHANGED <<osdVars, ioVars>>

\* A variant of KeepAliveWake that goes on after a failed send as after a
\* send that succeeded.
KeepAliveWakeGoesOn ==
    /\ LoopFree
    /\ kapc = "sleeping"
    /\ kapc' = "delay"
    /\ UNCHANGED <<running, reader, writer, link, lock,
                   loop_state, ready, mainpc, sync_left, reconnect_wait,
                   closepc, sends, queries, thr, deviceUp, callback_log>>
    /\ UNCHANGED <<osdVars, ioVars>>

\* The sleep of the interval ends and the query is written.
KeepAliveWake ==
    /\ LoopFree
    /\ kapc = "sleeping"
    /\ kapc' = IF StartWrite = "delay" THEN "delay" ELSE "done"
    /\ UNCHANGED <<running, reader, writer, link, lock,
                   loop_state, ready, mainpc, sync_left, reconnect_wait,
                   closepc, sends, queries, thr, deviceUp, callback_log>>
    /\ UNCHANGED <<osdVars, ioVars>>

KeepAliveDelayed ==
    /\ LoopFree
    /\ kapc = "delay"
    /\ kapc' = IF running /\ writer THEN "sleeping" ELSE "done"
    /\ UNCHANGED <<running, reader, writer, link, lock,
                   loop_state, ready, mainpc, sync_left, reconnect_wait,
                   closepc, sends, queries, thr, deviceUp, callback_log>>
    /\ UNCHANGED <<osdVars, ioVars>>

(***************************************************************************)
(* The tasks of the posted commands.                                       *)
(***************************************************************************)

SendStart(t) ==
    /\ LoopFree
    /\ HeadIs(SendItem(t))
    /\ ready' = Tail(ready)
    /\ sends' = [sends EXCEPT ![t] =
                    IF StartWrite = "delay" THEN "delay" ELSE Settled(t, StartWrite)]
    /\ UNCHANGED <<running, reader, writer, link, lock,
                   loop_state, mainpc, sync_left, reconnect_wait, kapc,
                   closepc, queries, thr, deviceUp, callback_log>>
    /\ UNCHANGED <<osdVars, ioVars>>

\* The sleep of COMMAND_SEND_DELAY ends: the write path has run.
SendDelayed(t) ==
    /\ LoopFree
    /\ sends[t] = "delay"
    /\ sends' = [sends EXCEPT ![t] = Settled(t, "done")]
    /\ UNCHANGED <<running, reader, writer, link, lock,
                   loop_state, ready, mainpc, sync_left, reconnect_wait, kapc,
                   closepc, queries, thr, deviceUp, callback_log>>
    /\ UNCHANGED <<osdVars, ioVars>>

QueryStart(i) ==
    /\ LoopFree
    /\ HeadIs(QueryItem(i))
    /\ ready' = Tail(ready)
    /\ queries' = [queries EXCEPT ![i] = IF StartWrite = "delay" THEN "delay" ELSE "free"]
    /\ UNCHANGED <<running, reader, writer, link, lock,
                   loop_state, mainpc, sync_left, reconnect_wait, kapc,
                   closepc, sends, thr, deviceUp, callback_log>>
    /\ UNCHANGED <<osdVars, ioVars>>

QueryDelayed(i) ==
    /\ LoopFree
    /\ queries[i] = "delay"
    /\ queries' = [queries EXCEPT ![i] = "free"]
    /\ UNCHANGED <<running, reader, writer, link, lock,
                   loop_state, ready, mainpc, sync_left, reconnect_wait, kapc,
                   closepc, sends, thr, deviceUp, callback_log>>
    /\ UNCHANGED <<osdVars, ioVars>>

(***************************************************************************)
(* The _close_async close posts, and the stop of the loop.                 *)
(***************************************************************************)

CloseAsyncStart ==
    /\ LoopFree
    /\ HeadIs(CloseItem)
    /\ ready' = Tail(ready)
    /\ kapc' = IF kapc \in {"none", "done"} THEN kapc ELSE "done"
    /\ IF writer
       THEN /\ link' = IF link \in {"up", "eof"} THEN "closed" ELSE link
            /\ closepc' = "wait_closed"
       ELSE /\ closepc' = "done"
            /\ UNCHANGED link
    /\ UNCHANGED <<running, reader, writer, lock, loop_state,
                   mainpc, sync_left, reconnect_wait, sends, queries, thr,
                   deviceUp, callback_log>>
    /\ UNCHANGED <<osdVars, ioVars>>

CloseAsyncClosed ==
    /\ LoopFree
    /\ closepc = "wait_closed"
    /\ closepc' = "done"
    /\ reader' = FALSE
    /\ writer' = FALSE
    /\ link' = "none"
    /\ UNCHANGED <<running, lock, loop_state, ready, mainpc,
                   sync_left, reconnect_wait, kapc, sends, queries, thr,
                   deviceUp, callback_log>>
    /\ UNCHANGED <<osdVars, ioVars>>

\* loop.stop(): run_forever returns and _run_loop_forever closes the loop.
LoopStop ==
    /\ LoopFree
    /\ HeadIs(StopItem)
    /\ ready' = Tail(ready)
    /\ loop_state' = "closed"
    /\ UNCHANGED <<running, reader, writer, link, lock, mainpc,
                   sync_left, reconnect_wait, kapc, closepc, sends, queries,
                   thr, deviceUp, callback_log>>
    /\ UNCHANGED <<osdVars, ioVars>>

\* The thread enters run_forever.
LoopBegin ==
    /\ loop_state = "started"
    /\ loop_state' = "running"
    /\ UNCHANGED <<running, reader, writer, link, lock, ready,
                   mainpc, sync_left, reconnect_wait, kapc, closepc, sends,
                   queries, thr, deviceUp, callback_log>>
    /\ UNCHANGED <<osdVars, ioVars>>

(***************************************************************************)
(* The foreground threads.                                                 *)
(***************************************************************************)

\* start(), the test of is_alive(): a thread that runs is left alone; one
\* that was not started yet, or has ended, is not alive.
Start(t) ==
    /\ thr[t].pc = "idle"
    /\ thr' = IF loop_state \in {"new", "closed"}
              THEN [thr EXCEPT ![t] = [Idle EXCEPT !.pc = "start_checked"]]
              ELSE thr
    /\ UNCHANGED <<running, reader, writer, link, lock, loop_state, ready,
                   mainpc, sync_left, reconnect_wait, kapc, closepc, sends,
                   queries, deviceUp, callback_log>>
    /\ UNCHANGED <<osdVars, ioVars>>

\* start(), after the test: Thread.start() and the post of the main task.
\* Thread.start() raises RuntimeError on a thread that was started before,
\* by a call that ran between the test and here or before the thread ended.
StartThread(t) ==
    /\ thr[t].pc = "start_checked"
    /\ IF loop_state = "new"
       THEN /\ loop_state' = "started"
            /\ ready' = Append(ready, MainItem)
            /\ mainpc' = "posted"
            /\ thr' = [thr EXCEPT ![t] = Idle]
       ELSE /\ thr' = [thr EXCEPT ![t] = [Idle EXCEPT !.pc = "start_returned",
                                                          !.result = "raised"]]
            /\ UNCHANGED <<loop_state, ready, mainpc>>
    /\ UNCHANGED <<running, reader, writer, link, lock,
                   sync_left, reconnect_wait, kapc, closepc, sends, queries,
                   deviceUp, callback_log>>
    /\ UNCHANGED <<osdVars, ioVars>>

\* send_command is called; the task of an earlier call of the thread, left
\* behind by a timeout, has ended.
SendCall(t) ==
    /\ thr[t].pc = "idle"
    /\ sends[t] = "free"
    /\ thr' = [thr EXCEPT ![t] = [Idle EXCEPT !.pc = "send_lock"]]
    /\ UNCHANGED <<running, reader, writer, link, lock,
                   loop_state, ready, mainpc, sync_left, reconnect_wait, kapc,
                   closepc, sends, queries, deviceUp, callback_log>>
    /\ UNCHANGED <<osdVars, ioVars>>

\* send_command takes the lock: it returns at once when the client is
\* shutting down, and posts the command otherwise (which raises when the
\* loop is closed).
SendAcquire(t) ==
    /\ thr[t].pc = "send_lock"
    /\ lock = "free"
    /\ IF ~running
       THEN /\ thr' = [thr EXCEPT ![t] = [Idle EXCEPT !.pc = "send_returned",
                                                          !.result = "shutting_down"]]
            /\ UNCHANGED <<lock, sends, ready>>
       ELSE IF loop_state = "closed"
       THEN /\ thr' = [thr EXCEPT ![t] = [Idle EXCEPT !.pc = "send_returned",
                                                          !.result = "raised"]]
            /\ UNCHANGED <<lock, sends, ready>>
       ELSE /\ thr' = [thr EXCEPT ![t].pc = "send_wait"]
            /\ lock' = t
            /\ sends' = [sends EXCEPT ![t] = "posted"]
            /\ ready' = Append(ready, SendItem(t))
    /\ UNCHANGED <<running, reader, writer, link, loop_state,
                   mainpc, sync_left, reconnect_wait, kapc, closepc, queries,
                   deviceUp, callback_log>>
    /\ UNCHANGED <<osdVars, ioVars>>

\* future.result returns or raises what the task ended with.
SendDone(t) ==
    /\ thr[t].pc = "send_wait"
    /\ sends[t] \in {"done", "not_connected", "write_error"}
    /\ thr' = [thr EXCEPT ![t] = [Idle EXCEPT !.pc = "send_returned",
                                              !.result = SendResult(sends[t])]]
    /\ sends' = [sends EXCEPT ![t] = "free"]
    /\ lock' = "free"
    /\ UNCHANGED <<running, reader, writer, link, loop_state,
                   ready, mainpc, sync_left, reconnect_wait, kapc, closepc,
                   queries, deviceUp, callback_log>>
    /\ UNCHANGED <<osdVars, ioVars>>

\* A variant of SendTimeout that withdraws the command it posted.
SendTimeoutWithdraws(t) ==
    /\ thr[t].pc = "send_wait"
    /\ sends[t] \notin {"done", "not_connected", "write_error"}
    /\ thr[t].waited = TELNET_OPERATION_TIMEOUT
    /\ thr' = [thr EXCEPT ![t] = [Idle EXCEPT !.pc = "send_returned",
                                              !.result = SendResult("timeout")]]
    /\ lock' = "free"
    /\ ready' = SelectSeq(ready, LAMBDA item : item # SendItem(t))
    /\ sends' = [sends EXCEPT ![t] = IF sends[t] = "posted" THEN "free" ELSE sends[t]]
    /\ UNCHANGED <<running, reader, writer, link, loop_state,
                   mainpc, sync_left, reconnect_wait, kapc, closepc,
                   queries, deviceUp, callback_log>>
    /\ UNCHANGED <<osdVars, ioVars>>

\* future.result raises TimeoutError; the task stays with the loop.
SendTimeout(t) ==
    /\ thr[t].pc = "send_wait"
    /\ sends[t] \notin {"done", "not_connected", "write_error"}
    /\ thr[t].waited = TELNET_OPERATION_TIMEOUT
    /\ thr' = [thr EXCEPT ![t] = [Idle EXCEPT !.pc = "send_returned",
                                              !.result = SendResult("timeout")]]
    /\ lock' = "free"
    /\ UNCHANGED <<running, reader, writer, link, loop_state,
                   ready, mainpc, sync_left, reconnect_wait, kapc, closepc,
                   sends, queries, deviceUp, callback_log>>
    /\ UNCHANGED <<osdVars, ioVars>>

\* The caller has the result of its call.
Return(t) ==
    /\ thr[t].pc \in {"send_returned", "close_returned", "start_returned"}
    /\ thr' = [thr EXCEPT ![t] = Idle]
    /\ UNCHANGED <<running, reader, writer, link, lock,
                   loop_state, ready, mainpc, sync_left, reconnect_wait, kapc,
                   closepc, sends, queries, deviceUp, callback_log>>
    /\ UNCHANGED <<osdVars, ioVars>>

\* A variant of FireAndForget that posts without the test of _running.
FireAndForgetAlways(t) ==
    /\ thr[t].pc = "idle"
    /\ lock = "free"
    /\ \E i \in FreeQuery :
           /\ queries' = [queries EXCEPT ![i] = "posted"]
           /\ ready' = Append(ready, QueryItem(i))
    /\ UNCHANGED <<running, reader, writer, link, lock,
                   loop_state, mainpc, sync_left, reconnect_wait, kapc,
                   closepc, sends, thr, deviceUp, callback_log>>
    /\ UNCHANGED <<osdVars, ioVars>>

\* send_command_fire_and_forget, from the moment the thread has the lock.
FireAndForget(t) ==
    /\ thr[t].pc = "idle"
    /\ lock = "free"
    /\ IF running
       THEN \E i \in FreeQuery :
               /\ queries' = [queries EXCEPT ![i] = "posted"]
               /\ ready' = Append(ready, QueryItem(i))
       ELSE UNCHANGED <<queries, ready>>
    /\ UNCHANGED <<running, reader, writer, link, lock,
                   loop_state, mainpc, sync_left, reconnect_wait, kapc,
                   closepc, sends, thr, deviceUp, callback_log>>
    /\ UNCHANGED <<osdVars, ioVars>>

\* A variant of CloseAcquire without the test of _running.
CloseAcquireAgain(t) ==
    /\ thr[t].pc = "idle"
    /\ lock = "free"
    /\ running' = FALSE
    /\ lock' = t
    /\ IF loop_state = "running"
       THEN /\ ready' = Append(ready, CloseItem)
            /\ closepc' = "posted"
            /\ thr' = [thr EXCEPT ![t].pc = "close_wait"]
       ELSE /\ thr' = [thr EXCEPT ![t].pc = "close_join"]
            /\ UNCHANGED <<ready, closepc>>
    /\ UNCHANGED <<reader, writer, link, loop_state, mainpc,
                   sync_left, reconnect_wait, kapc, sends, queries, deviceUp,
                   callback_log>>
    /\ UNCHANGED <<osdVars, ioVars>>

\* close, from the moment the thread has the lock: when _running is
\* cleared already it returns; else it clears _running and posts
\* _close_async to a loop that runs.
CloseAcquire(t) ==
    /\ thr[t].pc = "idle"
    /\ lock = "free"
    /\ IF ~running
       THEN /\ thr' = [thr EXCEPT ![t] = [Idle EXCEPT !.pc = "close_returned",
                                                          !.result = "not_running"]]
            /\ UNCHANGED <<running, lock, ready, closepc>>
       ELSE /\ running' = FALSE
            /\ lock' = t
            /\ IF loop_state = "running"
               THEN /\ ready' = Append(ready, CloseItem)
                    /\ closepc' = "posted"
                    /\ thr' = [thr EXCEPT ![t].pc = "close_wait"]
               ELSE /\ thr' = [thr EXCEPT ![t].pc = "close_join"]
                    /\ UNCHANGED <<ready, closepc>>
    /\ UNCHANGED <<reader, writer, link, loop_state, mainpc,
                   sync_left, reconnect_wait, kapc, sends, queries, deviceUp,
                   callback_log>>
    /\ UNCHANGED <<osdVars, ioVars>>

\* future.result returns or times out, and close asks the loop to stop.
CloseWait(t) ==
    /\ thr[t].pc = "close_wait"
    /\ closepc = "done" \/ thr[t].waited = SHUTDOWN_TIMEOUT_SECONDS
    /\ ready' = Append(ready, StopItem)
    /\ thr' = [thr EXCEPT ![t].pc = "close_join", ![t].waited = 0]
    /\ UNCHANGED <<running, reader, writer, link, lock,
                   loop_state, mainpc, sync_left, reconnect_wait, kapc,
                   closepc, sends, queries, deviceUp, callback_log>>
    /\ UNCHANGED <<osdVars, ioVars>>

\* thread.join: the thread has ended, or the wait times out, or the thread
\* was never started and join raises RuntimeError.
CloseJoin(t) ==
    /\ thr[t].pc = "close_join"
    /\ \/ loop_state \in {"new", "closed"}
       \/ thr[t].waited = SHUTDOWN_TIMEOUT_SECONDS
    /\ thr' = [thr EXCEPT ![t] = [Idle EXCEPT !.pc = "close_returned",
                                              !.result = IF loop_state = "new"
                                                         THEN "raised"
                                                         ELSE "returned"]]
    /\ lock' = "free"
    /\ UNCHANGED <<running, reader, writer, link, loop_state,
                   ready, mainpc, sync_left, reconnect_wait, kapc, closepc,
                   sends, queries, deviceUp, callback_log>>
    /\ UNCHANGED <<osdVars, ioVars>>

(***************************************************************************)
(* Time, and the receiver.                                                 *)
(***************************************************************************)

\* The timeout the thread waits with, or 0.
TimeLimit(t) ==
    IF thr[t].pc = "send_wait" THEN TELNET_OPERATION_TIMEOUT
    ELSE IF thr[t].pc \in {"close_wait", "close_join"} THEN SHUTDOWN_TIMEOUT_SECONDS
    ELSE 0

\* The thread waits: for the lock another holds, for a future that is not
\* done, for a thread that has not ended, and its timeout is not due.
Waits(t) ==
    /\ thr[t].pc = "send_lock" => lock # "free"
    /\ thr[t].pc = "send_wait" => sends[t] \in {"posted", "delay"}
    /\ thr[t].pc = "close_wait" => closepc # "done"
    /\ thr[t].pc = "close_join" => loop_state \in {"started", "running"}
    /\ TimeLimit(t) > 0 => thr[t].waited < TimeLimit(t)

\* A tick passes; no thread lets one pass that can go on.
Tick ==
    /\ \A t \in Threads : Waits(t)
    /\ thr' = [t \in Threads |->
                  [thr[t] EXCEPT
                      !.waited = IF TimeLimit(t) > 0 THEN @ + 1 ELSE @,
                      !.blocked = IF thr[t].pc \in {"send_lock", "send_wait"} /\ @ < MaxBlocked
                                  THEN @ + 1 ELSE @]]
    /\ UNCHANGED <<running, reader, writer, link, lock,
                   loop_state, ready, mainpc, sync_left, reconnect_wait, kapc,
                   closepc, sends, queries, deviceUp, callback_log>>
    /\ UNCHANGED <<osdVars, ioVars>>

\* The receiver starts or stops accepting connections.
DeviceSwitch ==
    /\ deviceUp' = ~deviceUp
    /\ UNCHANGED <<running, reader, writer, link, lock,
                   loop_state, ready, mainpc, sync_left, reconnect_wait, kapc,
                   closepc, sends, queries, thr, callback_log>>
    /\ UNCHANGED <<osdVars, ioVars>>

\* The receiver closes its side of the connection.
PeerCloses ==
    /\ link = "up"
    /\ link' = "eof"
    /\ UNCHANGED <<running, reader, writer, lock, loop_state,
                   ready, mainpc, sync_left, reconnect_wait, kapc, closepc,
                   sends, queries, thr, deviceUp, callback_log>>
    /\ UNCHANGED <<osdVars, ioVars>>

\* The connection is lost with an error.
LinkResets ==
    /\ link \in {"up", "eof"}
    /\ link' = "reset"
    /\ UNCHANGED <<running, reader, writer, lock, loop_state,
                   ready, mainpc, sync_left, reconnect_wait, kapc, closepc,
                   sends, queries, thr, deviceUp, callback_log>>
    /\ UNCHANGED <<osdVars, ioVars>>

(***************************************************************************)
(* The write path and the read path of the transport.                      *)
(***************************************************************************)

\* How many commands are posted and how many keep-alive queries are written.
MaxPosts == 3

MaxKeepAlives == 1

\* How many bytes are read on one connection, and the longest chunk of a
\* read.
MaxStream == 5

MaxChunk == 3

KEEP_ALIVE_COMMAND == <<"P", "W", "?">>

\* The commands the threads send.
Commands == {<<"P", "W", "O", "N">>, <<"M", "V", "5", "0">>}

\* The chunks a read returns.
Chunks == UNION {[1..n -> {"a", "b", "CR"}] : n \in 1..MaxChunk}

IoInit ==
    /\ posted = <<>>
    /\ issued = 0
    /\ wire = <<>>
    /\ written = <<>>
    /\ transport_writer = FALSE
    /\ listening = FALSE
    /\ line_buffer = <<>>
    /\ stream = <<>>
    /\ forwarded = <<>>
    /\ chunk = Nothing

\* A variant of command_bytes that adds a line feed to the terminator.
command_bytes_crlf(command) == command \o <<"CR", "LF">>

\* (command + "\r").encode('ascii')
command_bytes(command) == command \o <<"CR">>

\* send_command and send_command_fire_and_forget, under the lock: the
\* coroutine of the command is posted to the loop.
Post(command) ==
    /\ issued < MaxPosts
    /\ issued' = issued + 1
    /\ posted' = Append(posted, [n |-> issued + 1, command |-> command])
    /\ UNCHANGED <<wire, written, transport_writer, listening, line_buffer,
                   stream, forwarded, chunk>>
    /\ UNCHANGED <<osdVars, clientVars>>

\* The task of the oldest posted command runs to its first await: with no
\* writer it raises ConnectionError, else it writes the bytes of the
\* command.
TaskStart ==
    /\ posted # <<>>
    /\ posted' = Tail(posted)
    /\ IF transport_writer
       THEN /\ wire' = wire \o command_bytes(Head(posted).command)
            /\ written' = Append(written, Head(posted))
       ELSE UNCHANGED <<wire, written>>
    /\ UNCHANGED <<issued, transport_writer, listening, line_buffer, stream,
                   forwarded, chunk>>
    /\ UNCHANGED <<osdVars, clientVars>>

\* The number of keep-alive queries written.
KeepAlives == Cardinality({k \in 1..Len(written) : written[k].n = 0})

\* _send_keep_alive: the sleep ends and the query is written.
KeepAliveWrite ==
    /\ transport_writer
    /\ KeepAlives < MaxKeepAlives
    /\ wire' = wire \o command_bytes(KEEP_ALIVE_COMMAND)
    /\ written' = Append(written, [n |-> 0, command |-> KEEP_ALIVE_COMMAND])
    /\ UNCHANGED <<posted, issued, transport_writer, listening, line_buffer,
                   stream, forwarded, chunk>>
    /\ UNCHANGED <<osdVars, clientVars>>

\* _manage_connection_and_listen: _connect succeeds, the buffer is reset
\* and the listening begins.
Connect ==
    /\ ~listening
    /\ transport_writer' = TRUE
    /\ listening' = TRUE
    /\ line_buffer' = <<>>
    /\ stream' = <<>>
    /\ forwarded' = <<>>
    /\ chunk' = Nothing
    /\ UNCHANGED <<posted, issued, wire, written>>
    /\ UNCHANGED <<osdVars, clientVars>>

\* _connect fails: the streams are None.
ConnectFails ==
    /\ ~listening
    /\ transport_writer
    /\ transport_writer' = FALSE
    /\ UNCHANGED <<posted, issued, wire, written, listening, line_buffer,
                   stream, forwarded, chunk>>
    /\ UNCHANGED <<osdVars, clientVars>>

\* The index of the first carriage return of the buffer, 0 when it has
\* none.
FirstCR(buffer) ==
    IF \E k \in 1..Len(buffer) : buffer[k] = "CR"
    THEN CHOOSE k \in 1..Len(buffer) :
            /\ buffer[k] = "CR"
            /\ \A j \in 1..(k - 1) : buffer[j] # "CR"
    ELSE 0

RECURSIVE SplitBufferKeepEmpty(_)
\* A variant of SplitBuffer that passes the empty segments too.
SplitBufferKeepEmpty(buffer) ==
    LET cut(k) ==
            IF k = 0 THEN [out |-> <<>>, rest |-> buffer]
            ELSE LET more(r) ==
                         [out |-> <<SubSeq(buffer, 1, k)>> \o r.out, rest |-> r.rest]
                 IN  more(SplitBufferKeepEmpty(Drop(buffer, k)))
    IN  cut(FirstCR(buffer))

RECURSIVE SplitBuffer(_)
\* while b'\r' in self._line_buffer: the buffer is split at its first
\* carriage return and a line that is not empty is passed on with the
\* carriage return added back.  The segments passed and the buffer left.
SplitBuffer(buffer) ==
    LET cut(k) ==
            IF k = 0 THEN [out |-> <<>>, rest |-> buffer]
            ELSE LET more(r) ==
                         [out |-> (IF k > 1 THEN <<SubSeq(buffer, 1, k - 1) \o <<"CR">>>> ELSE <<>>) \o r.out,
                          rest |-> r.rest]
                 IN  more(SplitBuffer(Drop(buffer, k)))
    IN  cut(FirstCR(buffer))

\* _listen_for_updates: read returns a chunk that is not empty.
ReadChunk(data) ==
    /\ listening
    /\ Len(stream) + Len(data) <= MaxStream
    /\ chunk' = Just(data)
    /\ stream' = stream \o data
    /\ line_buffer' = SplitBuffer(line_buffer \o data).rest
    /\ forwarded' = forwarded \o SplitBuffer(line_buffer \o data).out
    /\ UNCHANGED <<posted, issued, wire, written, transport_writer, listening>>
    /\ UNCHANGED <<osdVars, clientVars>>

\* _listen_for_updates: read returns the empty chunk and the loop breaks.
ReadEmpty ==
    /\ listening
    /\ chunk' = Just(<<>>)
    /\ listening' = FALSE
    /\ UNCHANGED <<posted, issued, wire, written, transport_writer,
                   line_buffer, stream, forwarded>>
    /\ UNCHANGED <<osdVars, clientVars>>

\* _listen_for_updates: read raises, _close_async runs and the loop breaks.
ReadError ==
    /\ listening
    /\ listening' = FALSE
    /\ transport_writer' = FALSE
    /\ UNCHANGED <<posted, issued, wire, written, line_buffer, stream,
                   forwarded, chunk>>
    /\ UNCHANGED <<osdVars, clientVars>>

\* The write path, the connection made and lost.
WriteNext ==
    \/ \E command \in Commands : Post(command)
    \/ TaskStart
    \/ KeepAliveWrite
    \/ Connect
    \/ ConnectFails
    \/ ReadEmpty
    \/ ReadError

\* The read path, the connection made and lost.
ReadNext ==
    \/ Connect
    \/ \E data \in Chunks : ReadChunk(data)
    \/ ReadEmpty
    \/ ReadError

Init == ClientInit /\ OsdInit /\ IoInit

\* A step of the loop's thread.
LoopStep ==
    \/ LoopBegin \/ MainStart \/ MainWake \/ MainWaitClosed \/ MainOpen
    \/ LoopFireAndForget
    \/ MainReadChunk \/ MainReadEmpty \/ MainReadError \/ MainReadClosed
    \/ KeepAliveBegin \/ KeepAliveWake \/ KeepAliveDelayed
    \/ \E t \in Threads : SendStart(t) \/ SendDelayed(t)
    \/ \E i \in QueryIds : QueryStart(i) \/ QueryDelayed(i)
    \/ CloseAsyncStart \/ CloseAsyncClosed \/ LoopStop

\* A step of a foreground thread.
ThreadStep(t) ==
    \/ Start(t) \/ StartThread(t)
    \/ SendCall(t) \/ SendAcquire(t) \/ SendDone(t)
    \/ SendTimeout(t) \/ Return(t) \/ FireAndForget(t)
    \/ CloseAcquire(t) \/ CloseWait(t) \/ CloseJoin(t)

Receiver == DeviceSwitch \/ PeerCloses \/ LinkResets

Next ==
    \/ LoopStep
    \/ \E t \in Threads : ThreadStep(t)
    \/ Tick
    \/ Receiver

Spec == Init /\ [][Next]_vars


\* The client with one foreground thread, the threads scheduled fairly: a
\* task that can run a step runs it, a sleep ends, a thread that can go on
\* does, and time passes.
LiveNext ==
    \/ LoopStep
    \/ ThreadStep("t1")
    \/ Tick
    \/ Receiver

Fairness ==
    /\ WF_vars(LoopBegin)
    /\ WF_vars(MainStart)
    /\ WF_vars(MainWake)
    /\ WF_vars(MainWaitClosed)
    /\ WF_vars(MainOpen)
    /\ WF_vars(LoopFireAndForget)
    /\ WF_vars(MainReadEmpty)
    /\ WF_vars(MainReadError)
    /\ WF_vars(MainReadClosed)
    \* the sleep of the keep-alive interval ends at its time, and the task
    \* runs when the loop is next free
    /\ SF_vars(KeepAliveWake)
    /\ WF_vars(\E t \in Threads : SendStart(t) \/ SendDelayed(t))
    /\ WF_vars(\E i \in QueryIds : QueryStart(i) \/ QueryDelayed(i))
    /\ WF_vars(CloseAsyncStart \/ CloseAsyncClosed \/ LoopStop)
    /\ WF_vars(Tick)
    /\ WF_vars(SendAcquire("t1") \/ SendDone("t1") \/ SendTimeout("t1"))
    /\ WF_vars(CloseWait("t1") \/ CloseJoin("t1"))

SpecLive == Init /\ [][LiveNext]_vars /\ Fairness

\* The decoder alone, fed the lines of the receiver.
SpecOsd == Init /\ [][OsdNext]_vars

\* The decoder alone, fed status lines and the echoes of the setters.
SpecDecode == Init /\ [][DecodeNext]_vars

\* The write path of the transport alone.
SpecWrite == Init /\ [][WriteNext]_vars

\* The read path of the transport alone.
SpecRead == Init /\ [][ReadNext]_vars

(***************************************************************************)
(* Properties of the OSD state machine, over the lines of a process_data   *)
(* call (steps) in SpecOsd.                                                *)
(***************************************************************************)

\* The slot and the text of an OSD line.
SlotOf(line) == DigitVal(line[4])

TextOf(line) == Drop(line, 4)

\* The line starts with the three letters NSE.
HasNsePrefix(line) == Len(line) >= 3 /\ line[1] = "N" /\ line[2] = "S" /\ line[3] = "E"

\* The context had been touched within the timeout when the step's line
\* arrived.
NotTimedOut(st) == clock - st.ctx.last_update_time <= context_timeout

\* The event a reconstructed fragment is emitted as.
FragmentEvent(st) ==
    [name |-> IF st.ctx.screen_mode = "context_menu"
              THEN "osd_context_menu_item_update"
              ELSE "osd_menu_item_update",
     line |-> TheValue(st.pend),
     text |-> clean_osd_text(st.line),
     is_selected |-> TRUE]

\* C7, as claimed: once a pending slot is buffered, the very next line
\* processed, whatever its prefix, is emitted as that slot's item with
\* selection true, and the pending marker is empty after that line.
C7_AnyNextLineConsumed ==
    \A i \in 1..Len(steps) :
        steps[i].pend # Nothing =>
            /\ steps[i].ev = FragmentEvent(steps[i])
            /\ steps[i].pend2 = Nothing

\* C7, amended: once a pending slot is buffered, the next processed line
\* that does not start with NSE is emitted as that slot's item with
\* selection true and the marker is empty after it; a line that starts with
\* NSE is never emitted as the fragment and leaves the marker set, unless
\* it is a title line with a new title (the marker is cleared) or an empty
\* content line in Menu or ContextMenu mode (the marker becomes its slot).
C7_NextNonNseLineConsumed ==
    \A i \in 1..Len(steps) :
        LET st == steps[i] IN
        st.pend # Nothing =>
            IF ~HasNsePrefix(st.line)
            THEN /\ st.ev = FragmentEvent(st)
                 /\ st.pend2 = Nothing
            ELSE /\ st.ev # FragmentEvent(st)
                 /\ \/ st.pend2 = st.pend
                    \/ /\ st.pend2 = Nothing
                       /\ st.ev.name = "osd_title_update"
                       /\ st.ev.text # st.ctx.screen_title
                    \/ /\ st.pend2 = Just(SlotOf(st.line))
                       /\ st.ev = NoEvent
                       /\ st.ctx2.screen_mode \in {"menu", "context_menu"}

\* C7: a status line arrives while slot 2 is pending and is emitted as the
\* text of slot 2.
C7_Witness ==
    \E i \in 1..Len(steps) :
        /\ steps[i].pend = Just(2)
        /\ steps[i].line = <<"M", "V", "5", "0">>
        /\ steps[i].ev = ItemEvent("osd_menu_item_update", 2, <<"M", "V", "5", "0">>, TRUE)
        /\ steps[i].pend2 = Nothing

\* The step's line is an empty content line of slot k, met in Menu or
\* ContextMenu mode, established and not timed out.
EmptySlotInMenu(st, k) ==
    /\ st.line = <<"N", "S", "E", Digits[k + 1]>>
    /\ st.ctx.screen_mode \in {"menu", "context_menu"}
    /\ NotTimedOut(st)

\* C8, as claimed: in Menu (ContextMenu) mode an empty line of a slot 1..7
\* yields no event, and the line that follows it, whatever its non-empty
\* text, yields exactly one event: the (context-)menu item of that slot
\* with that text, selected.
C8_AnyContinuation ==
    \A i \in 1..Len(steps) : \A k \in 1..7 :
        EmptySlotInMenu(steps[i], k) =>
            /\ steps[i].ev = NoEvent
            /\ i < Len(steps) =>
                   steps[i + 1].ev =
                       ItemEvent(IF steps[i].ctx.screen_mode = "menu"
                                 THEN "osd_menu_item_update"
                                 ELSE "osd_context_menu_item_update",
                                 k, steps[i + 1].line, TRUE)

\* C8, amended: in Menu (ContextMenu) mode, established and not timed out,
\* an empty line of a slot 1..7 yields no event and buffers the slot; a
\* following line that does not start with NSE yields exactly one event:
\* the (context-)menu item of that slot, selected, whose text is the line
\* with control characters removed and trimmed (the line itself when, like
\* 'Selected Text', it holds none).
C8_NonNseContinuation ==
    /\ \A i \in 1..Len(steps) : \A k \in 1..7 :
           EmptySlotInMenu(steps[i], k) =>
               /\ steps[i].ev = NoEvent
               /\ steps[i].pend2 = Just(k)
               /\ steps[i].ctx2.screen_mode = steps[i].ctx.screen_mode
    /\ \A i \in 1..Len(steps) : \A k \in 1..7 :
           LET st == steps[i] IN
           /\ st.pend = Just(k)
           /\ st.ctx.screen_mode \in {"menu", "context_menu"}
           /\ ~HasNsePrefix(st.line)
           => /\ st.ev = ItemEvent(IF st.ctx.screen_mode = "menu"
                                   THEN "osd_menu_item_update"
                                   ELSE "osd_context_menu_item_update",
                                   k,
                                   Strip(SelectSeq(st.line, LAMBDA c : c \notin ControlChars)),
                                   TRUE)
              /\ (\A j \in 1..Len(st.line) : st.line[j] \notin ControlChars)
                     => st.ev.text = st.line

\* C8: 'NSE2' then 'Selected Text' in Menu mode, in one packet.
C8_Witness ==
    /\ Len(steps) = 2
    /\ EmptySlotInMenu(steps[1], 2)
    /\ steps[1].ctx.screen_mode = "menu"
    /\ steps[1].ev = NoEvent
    /\ steps[2].line = <<"S", "e", "l", "e", "c", "t", "e", "d", " ", "T", "e", "x", "t">>
    /\ steps[2].ev = ItemEvent("osd_menu_item_update", 2, <<"S", "e", "l", "e", "c", "t", "e", "d", " ", "T", "e", "x", "t">>, TRUE)

SongLine == <<"N", "S", "E", "1", "SOH">> \o <<"S", "o", "n", "g", " ", "A">>

\* C9, as claimed: the slot-1 line 0x01 'Song A' emits a now-playing-title
\* event with text 'Song A' under the title 'Now Playing', and a menu-item
\* event under the title 'Setup Menu'.
C9_MenuItemUnderSetupMenu ==
    \A i \in 1..Len(steps) :
        LET st == steps[i] IN
        st.line = SongLine /\ NotTimedOut(st) =>
            /\ st.ctx.screen_title = <<"N", "o", "w", " ", "P", "l", "a", "y", "i", "n", "g">> /\ st.ctx.screen_mode = "now_playing"
               => st.ev = TextEvent("now_playing_title_update", <<"S", "o", "n", "g", " ", "A">>)
            /\ st.ctx.screen_title = <<"S", "e", "t", "u", "p", " ", "M", "e", "n", "u">> /\ st.ctx.screen_mode = "menu"
               => st.ev.name = "osd_menu_item_update"

\* C9, amended: the slot-1 line 0x01 'Song A' is decoded according to the
\* screen mode: under the title 'Now Playing' it emits a now-playing-title
\* event with text 'Song A'; under the title 'Setup Menu' the identical
\* bytes emit no now-playing event and no other event either (0x01 is not
\* one of the menu handler's signifiers), and leave the context in Menu
\* mode.
C9_NoEventUnderSetupMenu ==
    \A i \in 1..Len(steps) :
        LET st == steps[i] IN
        st.line = SongLine /\ NotTimedOut(st) =>
            /\ st.ctx.screen_title = <<"N", "o", "w", " ", "P", "l", "a", "y", "i", "n", "g">> /\ st.ctx.screen_mode = "now_playing"
               => st.ev = TextEvent("now_playing_title_update", <<"S", "o", "n", "g", " ", "A">>)
            /\ st.ctx.screen_title = <<"S", "e", "t", "u", "p", " ", "M", "e", "n", "u">> /\ st.ctx.screen_mode = "menu"
               => /\ st.ev = NoEvent
                  /\ st.ctx2.screen_mode = "menu"
                  /\ st.pend2 = st.pend

\* C9: the song line arrives under the title 'Setup Menu' in Menu mode.
C9_Witness ==
    \E i \in 1..Len(steps) :
        /\ steps[i].line = SongLine
        /\ NotTimedOut(steps[i])
        /\ steps[i].ctx.screen_title = <<"S", "e", "t", "u", "p", " ", "M", "e", "n", "u">>
        /\ steps[i].ctx.screen_mode = "menu"
        /\ steps[i].pend = Nothing
        /\ steps[i].ev = NoEvent

\* The mode a title gives the screen, over the titles of the model.
ModeOfTitle(text) ==
    IF text \in {<<"N", "o", "w", " ", "P", "l", "a", "y", "i", "n", "g">>, <<"N", "O", "W", " ", "P", "L", "A", "Y", "I", "N", "G">>} THEN "now_playing"
    ELSE IF text = <<"M", "e", "n", "u">> THEN "context_menu"
    ELSE "menu"

\* The step's line is a slot-0 line whose cleaned text differs from the
\* stored title.
NewTitle(st) ==
    /\ Len(st.line) >= 4
    /\ SubSeq(st.line, 1, 4) = <<"N", "S", "E", "0">>
    /\ clean_osd_text(TextOf(st.line)) # st.ctx.screen_title

\* C10: a slot-0 line whose cleaned text differs from the stored title sets
\* cursor_line to -1, clears the pending fragment, stores the new title and
\* sets the mode: NowPlaying for 'now playing' in any case, ContextMenu for
\* exactly 'Menu', Menu for every other text.
C10_TitleChangeResets ==
    \A i \in 1..Len(steps) :
        LET st == steps[i] IN
        NewTitle(st) =>
            /\ st.ctx2.cursor_line = -1
            /\ st.pend2 = Nothing
            /\ st.ctx2.screen_title = clean_osd_text(TextOf(st.line))
            /\ st.ctx2.screen_mode = ModeOfTitle(st.ctx2.screen_title)

\* C10: the title changes to 'MENU' while the cursor is on slot 2 and a
\* slot is pending.
C10_Witness ==
    \E i \in 1..Len(steps) :
        /\ NewTitle(steps[i])
        /\ steps[i].line = <<"N", "S", "E", "0", "M", "E", "N", "U">>
        /\ steps[i].ctx.cursor_line = 2
        /\ steps[i].pend # Nothing
        /\ steps[i].ctx2.screen_mode = "menu"

\* The step's line is a slot-0 line whose cleaned text equals the stored
\* title.
SameTitle(st) ==
    /\ Len(st.line) >= 4
    /\ SubSeq(st.line, 1, 4) = <<"N", "S", "E", "0">>
    /\ clean_osd_text(TextOf(st.line)) = st.ctx.screen_title

\* C11: a slot-0 line whose cleaned text equals the stored title changes
\* nothing but the activity timestamp: screen mode, cursor line, stored
\* title and pending slot are as before the line, whatever happened since
\* the title was stored, and the line emits its title event only.
C11_UnchangedTitleKeepsContext ==
    \A i \in 1..Len(steps) :
        LET st == steps[i] IN
        SameTitle(st) =>
            /\ st.ctx2 = [st.ctx EXCEPT !.last_update_time = clock]
            /\ st.pend2 = st.pend
            /\ st.ev = TextEvent("osd_title_update", st.ctx.screen_title)

\* The step's line is an OSD line: NSE and a slot digit.
OsdLine(st) ==
    /\ Len(st.line) >= 4
    /\ HasNsePrefix(st.line)
    /\ \E k \in 1..10 : Digits[k] = st.line[4]

\* The step's line is the continuation of a fragmented item: a slot is
\* pending and the line does not start with NSE.
Continuation(st) == st.pend # Nothing /\ ~HasNsePrefix(st.line)

\* The step's line is a content or pagination line whose text starts with
\* none of the bytes a screen mode is inferred from.
Unsignified(st) ==
    /\ OsdLine(st)
    /\ SlotOf(st.line) # 0
    /\ \/ TextOf(st.line) = <<>>
       \/ TextOf(st.line)[1] \notin {"SOH", "ENQ", "EOT", "STX", "LF"}

\* C12: every title, content, pagination and fragment-continuation line
\* touches the context (the activity timestamp becomes the time of the
\* line); an OSD line that arrives more than context_timeout after the last
\* touch is interpreted in mode Unknown, one that arrives within it in the
\* mode retained; the timeout changes neither the stored title nor the
\* cursor.
C12_TimeoutResetsMode ==
    \A i \in 1..Len(steps) :
        LET st == steps[i] IN
        /\ OsdLine(st) \/ Continuation(st) => st.ctx2.last_update_time = clock
        /\ Unsignified(st) =>
               /\ st.ctx2.screen_mode =
                      IF clock - st.ctx.last_update_time > context_timeout
                      THEN "None"
                      ELSE st.ctx.screen_mode
               /\ st.ctx2.screen_title = st.ctx.screen_title
               /\ st.ctx2.cursor_line = st.ctx.cursor_line

(***************************************************************************)
(* Properties of the dispatch table and of the setters, over the lines of  *)
(* a process_data call (steps) in SpecDecode.                              *)
(***************************************************************************)

\* The names of the events the OSD machine emits.
OsdEventNames ==
    {"osd_title_update", "osd_menu_item_update", "osd_context_menu_item_update",
     "now_playing_title_update", "now_playing_artist_update",
     "now_playing_samplerate_update", "now_playing_album_update",
     "play_progress_update", "station_info_update"}

\* The entries of the table whose prefix the line starts with.
Matching(line) ==
    {i \in 1..Len(PARSER_CONFIG) :
        /\ Len(line) >= Len(PARSER_CONFIG[i].prefix)
        /\ \A k \in 1..Len(PARSER_CONFIG[i].prefix) : line[k] = PARSER_CONFIG[i].prefix[k]}

\* What the sub-parser of entry i alone makes of the line.
EntryResult(i, line) ==
    IF PARSER_CONFIG[i].event_name = None
    THEN PairParser(PARSER_CONFIG[i].parser, line)
    ELSE IF DataParser(PARSER_CONFIG[i].parser, line) # Nothing
    THEN [name |-> PARSER_CONFIG[i].event_name] @@ TheValue(DataParser(PARSER_CONFIG[i].parser, line))
    ELSE NoEvent

\* C13: a line the OSD machine makes no event of is decoded by the first
\* entry of the table whose prefix it starts with, and by that entry only:
\* when its sub-parser yields nothing, no event is returned, whatever later
\* entries match; a line that matches no prefix yields no event.
C13_FirstMatchOnly ==
    \A n \in 1..Len(steps) :
        LET st == steps[n] IN
        st.ev.name \notin OsdEventNames =>
            IF Matching(st.line) = {}
            THEN st.ev = NoEvent
            ELSE \E i \in Matching(st.line) :
                    /\ \A j \in Matching(st.line) : i <= j
                    /\ st.ev = EntryResult(i, st.line)

\* C13: 'MVMAXX' starts with the prefixes of two entries; the sub-parser of
\* the first yields nothing and no event is returned.  'MSSMART1' is decoded
\* by the entry MSSMART, not by the later entry MS.
C13_Witness ==
    \E n \in 1..Len(steps) :
        /\ steps[n].pend = Nothing
        /\ \/ /\ steps[n].line = <<"M", "V", "M", "A", "X", "X">>
              /\ Cardinality(Matching(steps[n].line)) = 2
              /\ steps[n].ev = NoEvent
           \/ /\ steps[n].line = <<"M", "S", "S", "M", "A", "R", "T", "1">>
              /\ Cardinality(Matching(steps[n].line)) = 2
              /\ steps[n].ev.name = "smart_select_update"

\* C14: in the table, a prefix that is a strict extension of another is
\* listed before it, and no entry's prefix starts with the prefix of an
\* earlier entry (so no entry is shadowed); hence the entry that decodes a
\* line has the longest of the prefixes the line starts with.
C14_LongerPrefixFirst ==
    /\ \A i \in 1..Len(PARSER_CONFIG) : \A j \in 1..Len(PARSER_CONFIG) :
           LET long == PARSER_CONFIG[i].prefix
               short == PARSER_CONFIG[j].prefix
           IN  /\ i # j
               /\ Len(long) >= Len(short)
               /\ SubSeq(long, 1, Len(short)) = short
               => /\ Len(long) > Len(short)
                  /\ i < j
    /\ \A n \in 1..Len(steps) :
           \A i \in Matching(steps[n].line) : \A j \in Matching(steps[n].line) :
               i < j => Len(PARSER_CONFIG[i].prefix) > Len(PARSER_CONFIG[j].prefix)

\* C14: the line 'MVMAX 73' reaches the entry MVMAX although it starts with
\* MV as well, and 'MSSMART1' reaches MSSMART although it starts with MS.
C14_Witness ==
    \E n \in 1..Len(steps) :
        /\ steps[n].pend = Nothing
        /\ \/ /\ steps[n].line = <<"M", "V", "M", "A", "X", " ", "7", "3">>
              /\ steps[n].ev = [name |-> "max_volume_update", value |-> 730]
           \/ /\ steps[n].line = <<"M", "S", "S", "M", "A", "R", "T", "1">>
              /\ steps[n].ev.name = "smart_select_update"

\* The line is the prefix followed by digits only, at least one.
PrefixThenDigits(line, prefix) ==
    /\ Len(line) > Len(prefix)
    /\ SubSeq(line, 1, Len(prefix)) = prefix
    /\ \A k \in (Len(prefix) + 1)..Len(line) : \E d \in 1..10 : Digits[d] = line[k]

\* C15: with no fragment pending, 'MVMAX735' yields the max-volume update
\* 73.5 and nothing else; every line starting with MVMAX yields a
\* max-volume update or no event; every line MV followed by digits only
\* yields a volume update.
C15_MaxVolumeNotVolume ==
    \A n \in 1..Len(steps) :
        LET st == steps[n] IN
        st.pend = Nothing =>
            /\ st.line = <<"M", "V", "M", "A", "X", "7", "3", "5">>
                   => st.ev = [name |-> "max_volume_update", value |-> 735]
            /\ Len(st.line) >= 5 /\ SubSeq(st.line, 1, 5) = <<"M", "V", "M", "A", "X">>
                   => st.ev.name \in {"max_volume_update", "None"}
            /\ PrefixThenDigits(st.line, <<"M", "V">>) => st.ev.name = "volume_update"

\* C15: 'MVMAX735' is decoded with no fragment pending.
C15_Witness ==
    \E n \in 1..Len(steps) :
        /\ steps[n].pend = Nothing
        /\ steps[n].line = <<"M", "V", "M", "A", "X", "7", "3", "5">>
        /\ steps[n].ev = [name |-> "max_volume_update", value |-> 735]

\* The number a digit stands for.
DigitNumber(c) == CHOOSE k \in 0..9 : Digits[k + 1] = c

\* The value, in tenths, of the digits of a half-unit parameter: three
\* digits are the number divided by 10, two digits the number itself.
HalfUnitTenths(d) ==
    IF Len(d) = 3
    THEN 100 * DigitNumber(d[1]) + 10 * DigitNumber(d[2]) + DigitNumber(d[3])
    ELSE 10 * (10 * DigitNumber(d[1]) + DigitNumber(d[2]))

\* The step's line is the prefix followed by two or three digits.
HalfUnitLine(st, prefix) ==
    /\ st.pend = Nothing
    /\ PrefixThenDigits(st.line, prefix)
    /\ Len(st.line) - Len(prefix) \in {2, 3}

\* C16: every decoder of a half-unit parameter (main volume, max volume,
\* dialog level, zone-2 volume, subwoofer level, channel level) takes three
\* digits for the number divided by 10 and two digits for the number
\* itself (the two levels are offsets from 50); 'PSDIL505' is 50.5 and
\* 'PSDIL50' is 50.0.
C16_HalfStepConversion ==
    \A n \in 1..Len(steps) :
        LET st == steps[n]
            digits(prefix) == Drop(st.line, Len(prefix))
            valued(prefix, name, offset) ==
                HalfUnitLine(st, prefix) =>
                    /\ st.ev.name = name
                    /\ st.ev.value = HalfUnitTenths(digits(prefix)) - offset
        IN  /\ valued(<<"M", "V">>, "volume_update", 0)
            /\ valued(<<"M", "V", "M", "A", "X">>, "max_volume_update", 0)
            /\ valued(<<"M", "V", "M", "A", "X", " ">>, "max_volume_update", 0)
            /\ valued(<<"P", "S", "D", "I", "L">>, "dialog_level_update", 0)
            /\ valued(<<"P", "S", "D", "I", "L", " ">>, "dialog_level_update", 0)
            /\ valued(<<"Z", "2">>, "zone2_volume_update", 0)
            /\ valued(<<"P", "S", "S", "W", "L">>, "sub_level_adjust_update", 500)
            /\ valued(<<"P", "S", "S", "W", "L", " ">>, "sub_level_adjust_update", 500)
            /\ valued(<<"C", "V", "F", "L", " ">>, "channel_level_update", 500)
            /\ valued(<<"C", "V", "C">>, "channel_level_update", 500)
            /\ st.pend = Nothing /\ st.line = <<"P", "S", "D", "I", "L", "5", "0", "5">>
                   => st.ev = [name |-> "dialog_level_update", value |-> 505]
            /\ st.pend = Nothing /\ st.line = <<"P", "S", "D", "I", "L", "5", "0">>
                   => st.ev = [name |-> "dialog_level_update", value |-> 500]

\* C16: 'PSDIL505' is decoded as 50.5.
C16_Witness ==
    \E n \in 1..Len(steps) :
        /\ steps[n].pend = Nothing
        /\ steps[n].line = <<"P", "S", "D", "I", "L", "5", "0", "5">>
        /\ steps[n].ev = [name |-> "dialog_level_update", value |-> 505]

\* The values (in tenths) of the declared range of a formatter-based
\* setter: main volume 0-98 and dialog level 38-62 in steps of 0.5, center
\* gain 0.0-1.0 in steps of 0.1.
DeclaredValues(command_name) ==
    CASE command_name = "VOLUME_SET" -> {v \in 0..980 : v % 5 = 0}
      [] command_name = "DIALOG_LEVEL_SET" -> {v \in 380..620 : v % 5 = 0}
      [] command_name = "CENTER_GAIN_SET" -> 0..10

\* The event the echo of a setter is decoded to.
EchoEvent(command_name) ==
    CASE command_name = "VOLUME_SET" -> "volume_update"
      [] command_name = "DIALOG_LEVEL_SET" -> "dialog_level_update"
      [] command_name = "CENTER_GAIN_SET" -> "center_gain_update"
      [] command_name = "ZONE2_VOLUME_SET" -> "zone2_volume_update"
      [] command_name = "SLEEP_SET" -> "sleep_timer_update"

\* C17: for every value of the declared range of a formatter-based setter,
\* the line that echoes the command the setter builds is decoded (with no
\* fragment pending) to that value.
C17_FormatterRoundTrip ==
    \A n \in 1..Len(steps) :
        \A command_name \in {"VOLUME_SET", "DIALOG_LEVEL_SET", "CENTER_GAIN_SET"} :
            \A v \in DeclaredValues(command_name) :
                /\ steps[n].pend = Nothing
                /\ handle_setter_command(command_name, v) = Just(steps[n].line)
                => /\ steps[n].ev.name = EchoEvent(command_name)
                   /\ steps[n].ev.value = v

\* C17: the echoes of the volume 9.5, of the dialog level 38.5 and of the
\* center gain 0.3 are decoded.
C17_Witness ==
    \E n \in 1..Len(steps) :
        /\ steps[n].pend = Nothing
        /\ \/ /\ steps[n].line = <<"M", "V", "0", "9", "5">>
              /\ steps[n].ev = [name |-> "volume_update", value |-> 95]
           \/ /\ steps[n].line = <<"P", "S", "D", "I", "L", " ", "3", "8", "5">>
              /\ steps[n].ev = [name |-> "dialog_level_update", value |-> 385]
           \/ /\ steps[n].line = <<"P", "S", "C", "E", "G", "0", "3">>
              /\ steps[n].ev = [name |-> "center_gain_update", value |-> 3]

\* C18: for every value that passes the range check of a setter with a
\* value_format (zone-2 volume 0-98, sleep timer 1-120), whole or not, the
\* line that echoes the command the setter builds is decoded (with no
\* fragment pending) to that value.
C18_ValueFormatRoundTrip ==
    \A n \in 1..Len(steps) :
        \A v \in SetterValues :
            /\ steps[n].pend = Nothing
               /\ handle_setter_command("ZONE2_VOLUME_SET", v) = Just(steps[n].line)
               => /\ steps[n].ev.name = "zone2_volume_update"
                  /\ steps[n].ev.value = v
            /\ steps[n].pend = Nothing
               /\ handle_setter_command("SLEEP_SET", v) = Just(steps[n].line)
               => /\ steps[n].ev.name = "sleep_timer_update"
                  /\ steps[n].ev.state = <<"o", "n">>
                  /\ 10 * steps[n].ev.minutes = v

\* C29: no text of an OSD event (a title, a now-playing text, a menu or
\* context-menu item, a reconstructed fragment, a station info) holds a
\* control character (0x00-0x1F, 0x7F); the time of a play progress is made
\* of digits and colons.
C29_NoControlCharsEmitted ==
    \A n \in 1..Len(steps) :
        LET ev == steps[n].ev IN
        /\ ev.name \in OsdEventNames \ {"play_progress_update"}
               => \A k \in 1..Len(ev.text) :
                      ev.text[k] \notin {"NUL", "SOH", "STX", "EOT", "ENQ", "ACK", "TAB",
                                         "LF", "CR", "SO", "DEL"}
        /\ ev.name = "play_progress_update" /\ ev.time # Nothing
               => \A k \in 1..Len(TheValue(ev.time)) :
                      TheValue(ev.time)[k] = ":" \/ IsDigit(TheValue(ev.time)[k])

\* C29: a reconstructed fragment and an album text whose lines hold control
\* characters inside are emitted without them.
C29_Witness ==
    \E n \in 1..Len(steps) :
        \/ /\ steps[n].line = <<"S", "DEL", "e", "NUL", "l">>
           /\ steps[n].ev.name = "osd_menu_item_update"
           /\ steps[n].ev.text = <<"S", "e", "l">>
        \/ /\ steps[n].line = NSE("4", <<"A", "NUL", "l", "DEL">>)
           /\ steps[n].ev.name = "now_playing_album_update"
           /\ steps[n].ev.text = <<"A", "l">>

\* The step's line is an OSD line of a slot 1-7.
ContentSlot(st) == OsdLine(st) /\ SlotOf(st.line) \in 1..7

\* The mode the parser examines the step's line in, after the reset of a
\* context that timed out.
ModeAt(st) == IF NotTimedOut(st) THEN st.ctx.screen_mode ELSE "None"

\* C30, as claimed: in Menu or ContextMenu mode a line of a slot 1-7 whose
\* text holds nothing but signifier (control) bytes and blanks emits no
\* event and makes its slot the pending slot; in Unknown or NowPlaying mode
\* a line sets no pending slot.
C30_EmptyLineBuffersSlot ==
    \A n \in 1..Len(steps) :
        LET st == steps[n] IN
        ContentSlot(st) =>
            /\ ModeAt(st) \in {"menu", "context_menu"}
               /\ (\A k \in 1..Len(TextOf(st.line)) :
                       TextOf(st.line)[k] \in ControlChars \cup Whitespace)
               => /\ st.ev = NoEvent
                  /\ st.pend2 = Just(SlotOf(st.line))
            /\ ModeAt(st) \in {"None", "now_playing"} => st.pend2 = st.pend

\* C26, as claimed: no line's handling fails, every line of the segment is
\* handled, a later line included, and a line that matches no prefix
\* yields no event.
C26_BadLineDropped ==
    /\ Len(steps) = Len(LinesOf(received))
    /\ \A n \in 1..Len(steps) :
           /\ steps[n].ev # ValueError
           /\ steps[n].pend = Nothing /\ ~HasNsePrefix(steps[n].line)
              /\ Matching(steps[n].line) = {}
              => steps[n].ev = NoEvent

\* The bytes that continue a two-byte UTF-8 sequence.
Continuations == {"xB6", "xB2"}

\* The bytes are valid UTF-8: every byte outside ASCII is the lead byte
\* 0xC3 with a continuation byte after it, or a continuation byte after
\* the lead byte.
ValidUtf8(b) ==
    \A i \in 1..Len(b) :
        /\ b[i] = "xC3" => i < Len(b) /\ b[i + 1] \in Continuations
        /\ b[i] \in Continuations => i > 1 /\ b[i - 1] = "xC3"
        /\ b[i] # "xF6"

\* The character of a byte under latin-1.
CodePoint(byte) ==
    CASE byte = "xC3" -> "U+00C3"
      [] byte = "xB6" -> "U+00B6"
      [] byte = "xB2" -> "U+00B2"
      [] byte = "xF6" -> "U+00F6"
      [] OTHER -> byte

\* C27: the decoding never fails: bytes that are valid UTF-8 are decoded as
\* UTF-8 (a two-byte sequence is one character), never with the fallback;
\* bytes that are not are decoded with latin-1, one character per byte; and
\* the lines of the decoded text are handled.
C27_DecodeTotal ==
    received # <<>> =>
        /\ IF ValidUtf8(received)
           THEN LET starts == {i \in 1..Len(received) : received[i] \notin Continuations}
                IN  /\ Len(decoded_data) = Cardinality(starts)
                    /\ \A i \in starts :
                           decoded_data[Cardinality({j \in starts : j <= i})] =
                               IF received[i] # "xC3" THEN received[i]
                               ELSE IF received[i + 1] = "xB6" THEN "U+00F6"
                               ELSE "U+00F2"
           ELSE /\ Len(decoded_data) = Len(received)
                /\ \A i \in 1..Len(received) : decoded_data[i] = CodePoint(received[i])
        /\ steps # <<>>
        /\ steps[1].line = SubSeq(decoded_data, 1, Len(steps[1].line))

\* C27: bytes that are not valid UTF-8, one of them a valid two-byte
\* sequence, are decoded with the fallback, and a name is made of them.
C27_Witness ==
    /\ received = <<"T", "F", "A", "N", "xC3", "xB6", "xF6", "CR">>
    /\ decoded_data = <<"T", "F", "A", "N", "U+00C3", "U+00B6", "U+00F6", "CR">>
    /\ Len(steps) = 1
    /\ steps[1].ev = [name |-> "tuner_name_update",
                      tuner_name |-> <<"U+00C3", "U+00B6", "U+00F6">>]

(***************************************************************************)
(* Properties of the transport, in SpecWrite and SpecRead.                 *)
(***************************************************************************)

RECURSIVE Terminated(_)
\* The texts of the commands, each followed by one carriage return.
Terminated(commands) ==
    IF commands = <<>> THEN <<>>
    ELSE Head(commands).command \o <<"CR">> \o Terminated(Tail(commands))

\* C19: the bytes on the wire are the texts of the commands written, each
\* followed by exactly one carriage return, one command after the other;
\* and the posted commands are written in the order of their posting.
C19_WholeCommandsInOrder ==
    /\ wire = Terminated(written)
    /\ \A i \in 1..Len(written) : \A j \in 1..Len(written) :
           i < j /\ written[i].n # 0 /\ written[j].n # 0 => written[i].n < written[j].n

\* C19: two posted commands of different texts and a keep-alive query are
\* on the wire.
C19_Witness ==
    /\ Len(written) >= 3
    /\ \E i \in 1..Len(written) : written[i].n = 0
    /\ \E i \in 1..Len(written) : \E j \in 1..Len(written) :
           /\ written[i].n # 0
           /\ written[j].n # 0
           /\ written[i].command # written[j].command

\* The places of the carriage returns of the stream that end a segment
\* that is not empty.
SegmentEnds ==
    {k \in 1..Len(stream) :
        /\ stream[k] = "CR"
        /\ k > 1
        /\ stream[k - 1] # "CR"}

\* The segment that ends at k, with its carriage return.
SegmentTo(k) ==
    SubSeq(stream,
           CHOOSE f \in 1..k :
               /\ \A j \in f..(k - 1) : stream[j] # "CR"
               /\ f > 1 => stream[f - 1] = "CR",
           k)

C1_BlockedAtMostTimeout ==
    \A t \in Threads :
        thr[t].pc \in {"send_lock", "send_wait"} =>
            thr[t].blocked <= TELNET_OPERATION_TIMEOUT

\* C2: send_command never raises; it returns a failure when the client is
\* shutting down, when the posted write raised (no writer, or the write
\* failed) and when the wait timed out, and it returns success exactly when
\* the write path of its command has run to its end.
C2_SendReturnsResult ==
    [][\A t \in Threads :
          thr'[t].pc = "send_returned" /\ thr[t].pc # "send_returned" =>
              /\ thr'[t].result \in {"success", "shutting_down", "error", "timeout"}
              /\ thr'[t].result = "success"
                     <=> thr[t].pc = "send_wait" /\ sends[t] = "done"
              /\ thr[t].pc = "send_lock" => ~running /\ thr'[t].result = "shutting_down"
              /\ thr[t].pc = "send_wait" /\ sends[t] \in {"not_connected", "write_error"}
                     => thr'[t].result = "error"
              /\ thr[t].pc = "send_wait" /\ sends[t] \in {"posted", "delay"}
                     => thr'[t].result = "timeout"]_vars

\* C2: one thread has a success and the other a timeout.
C2_Witness ==
    /\ thr["t1"].pc = "send_returned"
    /\ thr["t1"].result = "success"
    /\ thr["t2"].pc = "send_returned"
    /\ thr["t2"].result = "timeout"

\* The commands whose write path (write, flush, delay) has begun and has
\* not ended.
WritePaths ==
    Cardinality({t \in Threads : sends[t] = "delay"})
    + Cardinality({i \in QueryIds : queries[i] = "delay"})
    + (IF kapc = "delay" THEN 1 ELSE 0)

\* C3, as claimed: the write path of a posted command does not begin before
\* the write path of the one before it has ended.
C3_OneWritePathAtATime == WritePaths <= 1

\* C4, as claimed: between the end of the read loop and the next successful
\* connect, is_connected() is false.
C4_NotConnectedAfterLoss ==
    mainpc \in {"sleep", "wait_closed", "opening"} => ~is_connected

\* C5, as claimed: a lost callback follows an established callback (never
\* is the first callback, never follows another lost callback), and one
\* established callback is fired by a successful connect.
C5_LostOncePerLoss ==
    /\ Len(callback_log) < MaxLog /\ callback_log # <<>>
           => callback_log[1] = "established"
    /\ \A i \in 2..Len(callback_log) : callback_log[i] # callback_log[i - 1]
    /\ mainpc \in {"established", "reading"}
           => callback_log[Len(callback_log)] = "established"

\* C6: while the client runs there is no retry cap and no backoff: the wait
\* of the main task is always RECONNECT_DELAY_SECONDS, every wait is followed
\* by another connection attempt, and when the receiver stays reachable the
\* client is connected again and again.
C6_RetriesForever ==
    /\ [](mainpc = "sleep" => reconnect_wait = RECONNECT_DELAY_SECONDS)
    /\ (mainpc = "sleep") ~> (mainpc = "opening" \/ ~running)
    /\ <>[](deviceUp /\ running /\ loop_state = "running")
           => []<>(writer /\ link = "up")

\* C6: after a failed attempt and its wait the client is connected.
C6_Witness ==
    /\ callback_log = <<"lost", "established">>
    /\ reconnect_wait = RECONNECT_DELAY_SECONDS
    /\ is_connected
    /\ mainpc = "reading"

(***************************************************************************)
(* Properties of start and close.                                          *)
(***************************************************************************)

\* The number of times the item stands in the sequence.
Count(item, queue) == Cardinality({k \in 1..Len(queue) : queue[k] = item})

\* The threads inside the shutdown steps of close.
Closing == {t \in Threads : thr[t].pc \in {"close_wait", "close_join"}}

\* C22: _running never becomes true again; a close called when _running is
\* cleared returns normally and changes nothing of the client (no post, no
\* cancel, no socket close, no stop, no join); _close_async is posted and a
\* thread enters the shutdown steps only in the step that clears _running,
\* the stop is posted only by the thread that waits for that _close_async;
\* so each shutdown step runs at most once.
C22_CloseIdempotent ==
    [][ /\ ~running => ~running'
        /\ Cardinality(Closing') <= 1
        /\ \A t \in Threads :
               /\ thr[t].pc = "idle" /\ thr'[t].pc = "close_returned"
                  => /\ ~running
                     /\ thr'[t].result = "not_running"
                     /\ UNCHANGED <<running, reader, writer, link, lock,
                                    loop_state, ready, mainpc, kapc, closepc,
                                    sends, queries, callback_log>>
               /\ t \notin Closing /\ t \in Closing'
                  => running /\ ~running' /\ lock' = t
               /\ thr[t].pc = "close_join" /\ thr'[t].pc # "close_join"
                  => thr'[t].pc = "close_returned" /\ lock' = "free"
        /\ Count(CloseItem, ready') > Count(CloseItem, ready)
           => running /\ ~running'
        /\ Count(StopItem, ready') > Count(StopItem, ready)
           => \E t \in Threads :
                  thr[t].pc = "close_wait" /\ thr'[t].pc = "close_join"
      ]_vars

\* One thread has closed the client and the loop has stopped; a further
\* close of the other thread has returned without doing anything.
C22_Witness ==
    /\ loop_state = "closed"
    /\ \E t \in Threads :
           thr[t].pc = "close_returned" /\ thr[t].result = "not_running"

\* C23, as claimed: in whatever state of the client close is called (never
\* started, connecting, connected, waiting to reconnect, a send in
\* flight), no close returns by raising.
C23_CloseNeverRaises ==
    \A t \in Threads :
        thr[t].pc = "close_returned" => thr[t].result # "raised"

\* C24: in a step taken when _running is cleared no command is posted to
\* the loop (neither by send_command nor by send_command_fire_and_forget),
\* no task of a command begins that was not posted before, a send_command
\* that gets the lock returns the failure of a client that is shutting
\* down, and a write path begins only for a command that was posted
\* before _running was cleared.
C24_NoPostAfterClose ==
    [][ ~running =>
          /\ \A t \in Threads :
                 /\ Count(SendItem(t), ready') <= Count(SendItem(t), ready)
                 /\ sends[t] = "free" => sends'[t] = "free"
                 /\ sends'[t] = "delay" /\ sends[t] # "delay"
                    => sends[t] = "posted" /\ HeadIs(SendItem(t))
                 /\ thr[t].pc = "send_lock" /\ thr'[t].pc # "send_lock"
                    => /\ thr'[t].pc = "send_returned"
                       /\ thr'[t].result = "shutting_down"
                       /\ UNCHANGED <<ready, sends, queries, lock>>
          /\ \A i \in QueryIds :
                 /\ Count(QueryItem(i), ready') <= Count(QueryItem(i), ready)
                 /\ queries[i] = "free" => queries'[i] = "free"
                 /\ queries'[i] = "delay" /\ queries[i] # "delay"
                    => queries[i] = "posted" /\ HeadIs(QueryItem(i))
      ]_vars

\* A send_command called after close has returned the failure, with
\* nothing of it posted or written.
C24_Witness ==
    /\ ~running
    /\ \E t \in Threads :
           /\ thr[t].pc = "send_returned"
           /\ thr[t].result = "shutting_down"
           /\ sends[t] = "free"
           /\ Count(SendItem(t), ready) = 0

\* C25, as claimed: the thread is launched and the main task is scheduled
\* once, and every further start has no effect and does not raise.
C25_StartNeverRaises ==
    /\ Count(MainItem, ready) <= 1
    /\ mainpc = "posted" <=> Count(MainItem, ready) = 1
    /\ \A t \in Threads :
           thr[t].pc = "start_returned" => thr[t].result # "raised"

\* C28: the step in which send_command returns by its timeout leaves the
\* posted command with the loop: the queue of the loop and the task of the
\* command are as before, so the command can be written later; the
\* command stands in the queue at most once and exactly as long as its
\* task has not begun, and a task begins its write path once, when it is
\* taken from the head of the queue.
C28_TimeoutKeepsWrite ==
    [][ \A t \in Threads :
           /\ thr'[t].pc = "send_returned" /\ thr'[t].result = "timeout"
              /\ thr[t].pc = "send_wait"
              => /\ ready' = ready
                 /\ sends'[t] = sends[t]
                 /\ sends[t] \in {"posted", "delay"}
           /\ Count(SendItem(t), ready') = (IF sends'[t] = "posted" THEN 1 ELSE 0)
           /\ sends'[t] = "delay" /\ sends[t] # "delay"
              => /\ sends[t] = "posted"
                 /\ HeadIs(SendItem(t))
                 /\ Count(SendItem(t), ready') = 0
      ]_vars

\* send_command has returned its timeout while its command is still
\* queued, at the head of a loop that can run it on a connection that is
\* up: the write comes after the failure was reported.
C28_Witness ==
    \E t \in Threads :
        /\ thr[t].pc = "send_returned"
        /\ thr[t].result = "timeout"
        /\ sends[t] = "posted"
        /\ HeadIs(SendItem(t))
        /\ LoopFree
        /\ StartWrite = "delay"

(***************************************************************************)
(* Properties of the keep-alive task.                                      *)
(***************************************************************************)

\* The keep-alive task has ended on a client that runs while the main task
\* is still in the read loop: its send has failed.
KeepAliveFailed == running /\ kapc = "done" /\ mainpc = "reading"

\* C21: the keep-alive task writes a query only at the end of a sleep of
\* its interval, one for each sleep, on a connection it can write to, and
\* sleeps again after it; every sleep of a loop that is not stopped ends
\* with a query or with the end of the task; a send that fails ends the
\* task, and a task that
\* has ended writes nothing more (a later connection creates a new one);
\* after a failed send the main task leaves the read loop and then begins
\* a new connection attempt, unless the client is closed first; the
\* connection does not stay established for ever with the keep-alive task
\* ended and the main task in the read loop.
C21_KeepAliveFailureReconnects ==
    /\ [][ /\ kapc' = "delay" /\ kapc # "delay"
              => kapc = "sleeping" /\ StartWrite = "delay"
           /\ kapc = "delay" /\ kapc' # "delay"
              => kapc' \in {"sleeping", "done"}
           /\ kapc = "sleeping" /\ kapc' # "sleeping" /\ StartWrite # "delay"
              => kapc' = "done"
           /\ kapc = "done" /\ kapc' # "done"
              => kapc' = "created" /\ mainpc = "established"
         ]_vars
    /\ (kapc = "sleeping") ~> (kapc \in {"delay", "done"} \/ loop_state = "closed")
    /\ KeepAliveFailed ~> (mainpc # "reading" \/ ~running)
    /\ KeepAliveFailed ~> (mainpc \in {"opening", "wait_closed"} \/ ~running)
    /\ ~<>[](is_connected /\ kapc = "done" /\ mainpc = "reading")

\* The keep-alive send has failed on a connection that was reset, and the
\* main task has not yet left the read loop.
C21_Witness ==
    /\ KeepAliveFailed
    /\ writer
    /\ link = "reset"

(***************************************************************************)
(* Properties of the content lines in each screen mode.                    *)
(***************************************************************************)

\* The first byte of the text of the step's line, or "" for an empty text.
LeadOf(st) == IF TextOf(st.line) = <<>> THEN "" ELSE TextOf(st.line)[1]

\* C31: a line of a slot 1-7 that finds the mode unknown makes it
\* now_playing when its text starts with 0x01, menu when it starts with
\* 0x05 or 0x04, context_menu when it starts with 0x02 or a line feed, and
\* leaves it unknown and emits nothing otherwise; a line that finds a
\* mode leaves the mode as it is.
C31_ModeFromLeadingByte ==
    \A n \in 1..Len(steps) :
        LET st == steps[n] IN
        ContentSlot(st) =>
            /\ ModeAt(st) = "None" =>
                  /\ LeadOf(st) = "SOH" => st.ctx2.screen_mode = "now_playing"
                  /\ LeadOf(st) \in {"ENQ", "EOT"} => st.ctx2.screen_mode = "menu"
                  /\ LeadOf(st) \in {"STX", "LF"} => st.ctx2.screen_mode = "context_menu"
                  /\ LeadOf(st) \notin {"SOH", "ENQ", "EOT", "STX", "LF"}
                     => st.ctx2.screen_mode = "None" /\ st.ev = NoEvent
            /\ ModeAt(st) # "None" => st.ctx2.screen_mode = ModeAt(st)

\* A line that starts with the selected-item byte has found the mode
\* unknown, made it menu and been emitted as a menu item.
C31_Witness ==
    \E n \in 1..Len(steps) :
        LET st == steps[n] IN
        /\ ContentSlot(st)
        /\ ModeAt(st) = "None"
        /\ LeadOf(st) = "EOT"
        /\ st.ctx2.screen_mode = "menu"
        /\ st.ev.name = "osd_menu_item_update"

\* The step's line is a content line handled in now_playing mode, the mode
\* found or the mode the line itself gave.
InNowPlaying(st) ==
    /\ ContentSlot(st)
    /\ \/ ModeAt(st) = "now_playing"
       \/ ModeAt(st) = "None" /\ LeadOf(st) = "SOH"

\* The text of the step's line after its signifier, cleaned.
CleanAfterLead(st) == clean_osd_text(Drop(TextOf(st.line), 1))

InMenu(st) ==
    /\ ContentSlot(st)
    /\ \/ ModeAt(st) = "menu"
       \/ ModeAt(st) = "None" /\ LeadOf(st) \in {"ENQ", "EOT"}

\* C33: in menu mode a line of a slot 1-7 emits a menu item, with the
\* slot, the cleaned text after the first byte and the selected flag,
\* exactly when its first byte is 0x04, 0x05, 0x02, 0x06, 0x0A or 0x0E;
\* the flag is true exactly for 0x04, and the cursor line becomes the slot
\* exactly then and is left alone otherwise.
C33_MenuItems ==
    \A n \in 1..Len(steps) :
        LET st == steps[n]
            recognized == LeadOf(st) \in {"EOT", "ENQ", "STX", "ACK", "LF", "SO"}
        IN  InMenu(st) =>
              /\ st.ev = IF recognized
                         THEN [name |-> "osd_menu_item_update",
                               line |-> SlotOf(st.line),
                               text |-> CleanAfterLead(st),
                               is_selected |-> (LeadOf(st) = "EOT")]
                         ELSE NoEvent
              /\ st.ctx2.cursor_line = IF LeadOf(st) = "EOT"
                                       THEN SlotOf(st.line)
                                       ELSE st.ctx.cursor_line

\* In menu mode a line that starts with 0x06 has been emitted as an item
\* that is not selected and has left the cursor on another slot, where a
\* selected item had put it.
C33_Witness ==
    \E n \in 1..Len(steps) :
        LET st == steps[n] IN
        /\ ModeAt(st) = "menu"
        /\ st.line = NSE("6", <<"ACK", "I", "t">>)
        /\ st.ev = [name |-> "osd_menu_item_update", line |-> 6,
                    text |-> <<"I", "t">>, is_selected |-> FALSE]
        /\ st.ctx.cursor_line \in 1..7
        /\ st.ctx2.cursor_line = st.ctx.cursor_line

\* The step's line is a content line handled in context_menu mode, the
\* mode found or the mode the line itself gave.
InContextMenu(st) ==
    /\ ContentSlot(st)
    /\ \/ ModeAt(st) = "context_menu"
       \/ ModeAt(st) = "None" /\ LeadOf(st) \in {"STX", "LF"}

\* C34: in context_menu mode a line of a slot 1-7 emits a context-menu
\* item, with the slot and the cleaned text, exactly when the cleaned text
\* is not empty, and the item is selected exactly when the raw text does
\* not start with 0x02.
C34_ContextMenuItems ==
    \A n \in 1..Len(steps) :
        LET st == steps[n]
            text == clean_osd_text(TextOf(st.line))
        IN  InContextMenu(st) =>
              st.ev = IF text # <<>>
                      THEN [name |-> "osd_context_menu_item_update",
                            line |-> SlotOf(st.line),
                            text |-> text,
                            is_selected |-> (LeadOf(st) # "STX")]
                      ELSE NoEvent

\* In context_menu mode a line with the signifier has been emitted as an
\* item that is not selected, or a line that starts with another byte as
\* the selected item.
C34_Witness ==
    \E n \in 1..Len(steps) :
        LET st == steps[n] IN
        /\ ModeAt(st) = "context_menu"
        /\ \/ /\ st.line = NSE("3", <<"STX", "A", "c", "t">>)
              /\ st.ev = [name |-> "osd_context_menu_item_update", line |-> 3,
                          text |-> <<"A", "c", "t">>, is_selected |-> FALSE]
           \/ /\ st.line = NSE("5", <<"ENQ", "I", "t">>)
              /\ st.ev = [name |-> "osd_context_menu_item_update", line |-> 5,
                          text |-> <<"I", "t">>, is_selected |-> TRUE]

\* The step's line is the line of slot 8.
PaginationLine(st) == OsdLine(st) /\ SlotOf(st.line) = 8

\* C35: in every mode, the unknown one included, a line of slot 8 emits
\* the station info with its text, without the '$' it begins with and
\* cleaned, exactly when that text is not empty; it leaves the mode as the
\* inactivity check left it, and the title, the cursor, the menu items
\* and the pending slot as they were.
C35_PaginationLine ==
    \A n \in 1..Len(steps) :
        LET st == steps[n]
            text == clean_osd_text(LStripSet(TextOf(st.line), {"$"}))
        IN  PaginationLine(st) =>
              /\ st.ev = IF text # <<>>
                         THEN [name |-> "station_info_update", text |-> text]
                         ELSE NoEvent
              /\ st.ctx2.screen_mode = ModeAt(st)
              /\ st.ctx2.screen_title = st.ctx.screen_title
              /\ st.ctx2.cursor_line = st.ctx.cursor_line
              /\ st.ctx2.menu_items = st.ctx.menu_items
              /\ st.pend2 = st.pend

\* A line of slot 8 that starts with '$' has emitted its text without it,
\* while a slot was pending and a cursor set, and has left both.
C35_Witness ==
    \E n \in 1..Len(steps) :
        LET st == steps[n] IN
        /\ st.line = NSE("8", <<"$", "S", "t", "n">>)
        /\ st.ev = [name |-> "station_info_update", text |-> <<"S", "t", "n">>]
        /\ st.pend # Nothing
        /\ st.pend2 = st.pend
        /\ st.ctx.cursor_line \in 1..7
        /\ st.ctx2.cursor_line = st.ctx.cursor_line

\* C38, as claimed: a reconstructed fragment is emitted only in menu or
\* context_menu mode, as the item of that mode; a slot is pending only in
\* one of these two modes, and a line that leaves the slot pending leaves
\* the mode it was buffered in.
C38_FragmentInItsMode ==
    /\ pending_selected_line # Nothing
           => context.screen_mode \in {"menu", "context_menu"}
    /\ \A n \in 1..Len(steps) :
           LET st == steps[n] IN
           /\ Continuation(st) =>
                 /\ st.ctx.screen_mode \in {"menu", "context_menu"}
                 /\ st.ev.name = IF st.ctx.screen_mode = "context_menu"
                                  THEN "osd_context_menu_item_update"
                                  ELSE "osd_menu_item_update"
           /\ st.pend # Nothing /\ st.pend2 = st.pend
                 => st.ctx2.screen_mode = st.ctx.screen_mode

\* C39, as claimed: every menu item and context-menu item carries a line
\* number in 1..7, a pending slot is in 1..7, and an OSD line of slot 9
\* emits nothing and makes no slot pending.
C39_ItemLinesInRange ==
    /\ \A slot \in pending_selected_line : slot \in 1..7
    /\ \A n \in 1..Len(steps) :
           LET st == steps[n] IN
           /\ st.ev.name \in {"osd_menu_item_update", "osd_context_menu_item_update"}
                 => st.ev.line \in 1..7
           /\ \A slot \in st.pend2 : slot \in 1..7
           /\ OsdLine(st) /\ SlotOf(st.line) = 9
                 => st.ev = NoEvent /\ st.pend2 = st.pend

(***************************************************************************)
(* Properties of the loop's thread, the callbacks and the keep-alive task. *)
(***************************************************************************)

\* The loop's thread is inside the established callback, where the next
\* send_command_fire_and_forget has to take the lock.
LoopWantsLock == loop_state = "running" /\ mainpc = "established" /\ sync_left > 0

\* The thread holds the lock and waits for a future only the loop can
\* complete: the task of its send_command, or the _close_async of its
\* close.
WaitsForLoop(t) ==
    /\ lock = t
    /\ \/ thr[t].pc = "send_wait" /\ sends[t] = "posted"
       \/ thr[t].pc = "close_wait" /\ closepc = "posted"

\* C36, as claimed: the loop's thread is never inside the established
\* callback, in need of the lock, while a foreground send_command or close
\* holds the lock and waits for the loop.
C36_LoopNeverWaitsForLock ==
    ~(LoopWantsLock /\ \E t \in Threads : WaitsForLoop(t))

\* The main task is inside a connection attempt.
Connecting == mainpc \in {"wait_closed", "opening"}

\* C37, as claimed: in a step taken when _running is cleared no callback
\* is invoked (neither lost nor established) and no connection attempt
\* begins.
C37_QuietAfterClose ==
    [][ ~running =>
          /\ callback_log' = callback_log
          /\ mainpc' # "established"
          /\ Connecting' => Connecting
      ]_vars

\* The keep-alive task is alive: created and not ended.
KeepAliveAlive == kapc \in {"created", "sleeping", "delay"}

\* C40: a keep-alive task is created only when none is alive, so there is
\* never more than one; when _connect has succeeded and the established
\* callback has returned a keep-alive task is alive, and it stays alive
\* as long as the client runs, listens and is connected; the task writes
\* its query to the writer of the connection that is current.
C40_OneKeepAlive ==
    [][ /\ kapc' = "created" /\ kapc # "created" => ~KeepAliveAlive
        /\ mainpc = "established" /\ mainpc' # "established" => KeepAliveAlive'
        /\ running' /\ mainpc' = "reading" /\ is_connected' => KeepAliveAlive'
        /\ kapc' = "delay" /\ kapc # "delay" => is_connected
      ]_vars

\* After a loss and a reconnect the keep-alive task has written its query
\* on the new connection while the main task listens.
C40_Witness ==
    /\ callback_log = <<"lost", "established">>
    /\ running
    /\ mainpc = "reading"
    /\ is_connected
    /\ kapc = "delay"

====
